---- MODULE Spec2Model ----
(***************************************************************************)
(* The interactive session controller of gadget (internal/tui): the        *)
(* Bubble Tea Model, its Update / handleKeyPress handlers, the feature      *)
(* objects that hold the activity flags, and the asynchronous commands      *)
(* (tea.Cmd) whose outcome messages Update consumes.                        *)
(*                                                                         *)
(* Strings that the code inspects character by character (command names,   *)
(* descriptions, the search filter) are sequences of one-character strings.*)
(* Message texts that the code only stores and shows are tokens.            *)
(* Presentation state (spinner frame, help, styles, window size) and        *)
(* program exit (ctrl+c, tea.Quit) are outside the model.                   *)
(***************************************************************************)
EXTENDS Integers, Sequences, FiniteSets, Bags, TLC

(***************************************************************************)
(* Bounds of the model.                                                    *)
(***************************************************************************)
\* commands (tea.Cmd goroutines) that may be running at the same time
MaxInFlight == 2
\* longest search filter the user types, the leading "/" included
MaxFilterLen == 2
\* most devices / AVDs an enumeration returns
MaxDevices == 2
MaxAvds == 2

\* characters the user types into the search filter; "q" occurs in no
\* command name or description
TypedChars == {"s", "q"}

(***************************************************************************)
(* The command catalog shown by the menu.                                  *)
(***************************************************************************)
GetTUICommands ==
  <<
    [Command |-> "screenshot",
     Name |-> <<"S","c","r","e","e","n","s","h","o","t">>,
     Description |-> <<"T","a","k","e"," ","a"," ","s","c","r","e","e","n","s","h","o","t">>],
    [Command |-> "screenshot-day-night",
     Name |-> <<"S","c","r","e","e","n","s","h","o","t"," ","d","a","y","-","n","i","g","h","t">>,
     Description |-> <<"T","a","k","e"," ","s","c","r","e","e","n","s","h","o","t","s"," ","i","n"," ","d","a","y"," ","a","n","d"," ","n","i","g","h","t"," ","m","o","d","e">>],
    [Command |-> "screen-record",
     Name |-> <<"S","c","r","e","e","n"," ","r","e","c","o","r","d">>,
     Description |-> <<"R","e","c","o","r","d"," ","t","h","e"," ","s","c","r","e","e","n">>],
    [Command |-> "dpi",
     Name |-> <<"D","P","I">>,
     Description |-> <<"V","i","e","w"," ","o","r"," ","c","h","a","n","g","e"," ","d","e","v","i","c","e"," ","D","P","I">>],
    [Command |-> "font-size",
     Name |-> <<"F","o","n","t"," ","s","i","z","e">>,
     Description |-> <<"V","i","e","w"," ","o","r"," ","c","h","a","n","g","e"," ","d","e","v","i","c","e"," ","f","o","n","t"," ","s","i","z","e">>],
    [Command |-> "screen-size",
     Name |-> <<"S","c","r","e","e","n"," ","s","i","z","e">>,
     Description |-> <<"V","i","e","w"," ","o","r"," ","c","h","a","n","g","e"," ","d","e","v","i","c","e"," ","s","c","r","e","e","n"," ","s","i","z","e">>],
    [Command |-> "pair-wifi",
     Name |-> <<"P","a","i","r"," ","W","i","F","i"," ","d","e","v","i","c","e">>,
     Description |-> <<"P","a","i","r"," ","w","i","t","h"," ","a"," ","n","e","w"," ","W","i","F","i"," ","d","e","v","i","c","e">>],
    [Command |-> "connect-wifi",
     Name |-> <<"C","o","n","n","e","c","t"," ","W","i","F","i"," ","d","e","v","i","c","e">>,
     Description |-> <<"C","o","n","n","e","c","t"," ","t","o"," ","a"," ","W","i","F","i"," ","d","e","v","i","c","e">>],
    [Command |-> "disconnect-wifi",
     Name |-> <<"D","i","s","c","o","n","n","e","c","t"," ","W","i","F","i"," ","d","e","v","i","c","e">>,
     Description |-> <<"D","i","s","c","o","n","n","e","c","t"," ","f","r","o","m"," ","a"," ","W","i","F","i"," ","d","e","v","i","c","e">>],
    [Command |-> "launch-emulator",
     Name |-> <<"L","a","u","n","c","h"," ","e","m","u","l","a","t","o","r">>,
     Description |-> <<"S","t","a","r","t"," ","a","n"," ","A","n","d","r","o","i","d"," ","e","m","u","l","a","t","o","r">>],
    [Command |-> "configure-emulator",
     Name |-> <<"C","o","n","f","i","g","u","r","e"," ","e","m","u","l","a","t","o","r">>,
     Description |-> <<"E","d","i","t"," ","e","m","u","l","a","t","o","r"," ","c","o","n","f","i","g","u","r","a","t","i","o","n">>],
    [Command |-> "refresh-devices",
     Name |-> <<"R","e","f","r","e","s","h"," ","d","e","v","i","c","e","s">>,
     Description |-> <<"R","e","f","r","e","s","h"," ","t","h","e"," ","d","e","v","i","c","e"," ","l","i","s","t">>]
  >>

getAvailableCommands == GetTUICommands

CatalogCommands == [i \in 1..Len(getAvailableCommands) |-> getAvailableCommands[i].Command]

UpperToLower ==
  ("A" :> "a") @@ ("C" :> "c") @@ ("D" :> "d") @@ ("E" :> "e") @@ ("F" :> "f") @@ ("I" :> "i") @@ ("L" :> "l") @@ ("P" :> "p") @@ ("R" :> "r") @@ ("S" :> "s") @@ ("T" :> "t") @@ ("V" :> "v") @@ ("W" :> "w")

\* strings.ToLower on one rune / on a string
LowerRune(c) == IF c \in DOMAIN UpperToLower THEN UpperToLower[c] ELSE c
ToLower(s) == [i \in 1..Len(s) |-> LowerRune(s[i])]

\* strings.TrimPrefix(s, "/")
TrimPrefixSlash(s) == IF Len(s) > 0 /\ s[1] = "/" THEN Tail(s) ELSE s

(***************************************************************************)
(* Fuzzy matcher (Model.fuzzyMatchStringScore, fuzzyMatchScore,            *)
(* filterCommands).  Indexes i and filterIndex are the 0-based indexes of  *)
(* the Go code; sequences are 1-based.                                     *)
(***************************************************************************)
RECURSIVE SumSeq(_)
SumSeq(s) == IF s = <<>> THEN 0 ELSE Head(s) + SumSeq(Tail(s))

\* "if bonus < 0 { bonus = 0 }"
ClampToZero(x) == IF x < 0 THEN 0 ELSE x

\* the state of the scan after strRunes[i] matched filterRunes[filterIndex]
scanMatch(st, i, bonus, wordStart) ==
  [filterIndex      |-> st.filterIndex + 1,
   score            |-> st.score + 10 + bonus + (IF wordStart THEN 8 ELSE 0),
   consecutiveBonus |-> bonus,
   matchPositions   |-> Append(st.matchPositions, i)]

\* the scan loop over strRunes
RECURSIVE fuzzyScan(_, _, _, _)
fuzzyScan(str, filter, i, st) ==
  IF i >= Len(str) THEN st
  ELSE IF st.filterIndex < Len(filter) /\ str[i + 1] = filter[st.filterIndex + 1]
       THEN fuzzyScan(str, filter, i + 1,
              scanMatch(st, i,
                        IF st.filterIndex > 0 /\ i > 0 /\ str[i] = filter[st.filterIndex]
                        THEN st.consecutiveBonus + 5 ELSE 0,
                        IF i = 0 THEN TRUE ELSE str[i] = " " \/ str[i] = "-"))
       ELSE fuzzyScan(str, filter, i + 1, st)

\* early position bonus, from the average match position
positionBonus(matchPositions, strLen) ==
  IF Len(matchPositions) > 0 /\ strLen > 0
  THEN ClampToZero(50 - (((SumSeq(matchPositions) \div Len(matchPositions)) * 50)
                         \div strLen))
  ELSE 0

\* a faulty compactnessBonus: the span is the distance between the first and
\* the last match, and a single match has span 0
compactnessBonusOfDistance(matchPositions, strLen) ==
  IF Len(matchPositions) > 0
  THEN ClampToZero(25 - (((matchPositions[Len(matchPositions)] - matchPositions[1])
                          * 25) \div strLen))
  ELSE 0

\* compactness bonus, from the span of the matches
compactnessBonus(matchPositions, strLen) ==
  IF Len(matchPositions) > 1
  THEN ClampToZero(25 - (((matchPositions[Len(matchPositions)] - matchPositions[1] + 1)
                          * 25) \div strLen))
  ELSE 0

\* a faulty scanScore: a scan that stopped before the end of the filter keeps
\* its score
scanScoreOfPartialMatch(st, strLen, filterLen) ==
  st.score + positionBonus(st.matchPositions, strLen)
  + compactnessBonus(st.matchPositions, strLen)

\* the score once the scan has ended in st
scanScore(st, strLen, filterLen) ==
  IF st.filterIndex = filterLen
  THEN st.score + positionBonus(st.matchPositions, strLen)
       + compactnessBonus(st.matchPositions, strLen)
  ELSE 0

fuzzyMatchStringScore(str, filter) ==
  IF filter = <<>> THEN 0
  ELSE scanScore(fuzzyScan(str, filter, 0,
                   [filterIndex |-> 0, score |-> 0, consecutiveBonus |-> 0,
                    matchPositions |-> <<>>]),
                 Len(str), Len(filter))

\* the higher of the two scores, boosted when the name matches
boostedScore(nameScore, descScore) ==
  (IF descScore > nameScore THEN descScore ELSE nameScore)
  + (IF nameScore > 0 THEN 50 ELSE 0)

fuzzyMatchScore(cmd, filter) ==
  boostedScore(fuzzyMatchStringScore(ToLower(cmd.Name), filter),
               fuzzyMatchStringScore(ToLower(cmd.Description), filter))

\* sort.Slice(matches, Score descending) on at most 12 elements is Go's
\* insertion sort: an element moves left only past strictly smaller scores
InsertAt(sorted, m, k) ==
  SubSeq(sorted, 1, k) \o <<m>> \o SubSeq(sorted, k + 1, Len(sorted))

\* a faulty InsertByScore: a match moves in front of the matches of its score
InsertByScoreBeforeTies(sorted, m) ==
  InsertAt(sorted, m,
           Cardinality({i \in 1..Len(sorted) : sorted[i].Score > m.Score}))

InsertByScore(sorted, m) ==
  InsertAt(sorted, m,
           Cardinality({i \in 1..Len(sorted) : sorted[i].Score >= m.Score}))

RECURSIVE SortByScore(_, _)
SortByScore(sorted, rest) ==
  IF rest = <<>> THEN sorted
  ELSE SortByScore(InsertByScore(sorted, Head(rest)), Tail(rest))

\* "if score > 0 { matches = append(matches, CommandMatch{...}) }"
appendMatch(cmd, score) ==
  IF score > 0 THEN <<[Command |-> cmd.Command, Score |-> score]>> ELSE <<>>

RECURSIVE collectMatches(_, _)
collectMatches(cmds, filter) ==
  IF cmds = <<>> THEN <<>>
  ELSE appendMatch(Head(cmds), fuzzyMatchScore(Head(cmds), filter))
       \o collectMatches(Tail(cmds), filter)

\* the commands of the matches, in their order
matchedCommands(matches) == [i \in 1..Len(matches) |-> matches[i].Command]

\* a faulty filterCommands: the filter "/" is scored like a query
filterCommandsScoringSlash(mode, filter) ==
  IF ~mode \/ filter = <<>>
  THEN CatalogCommands
  ELSE matchedCommands(
         SortByScore(<<>>, collectMatches(getAvailableCommands,
                                          ToLower(TrimPrefixSlash(filter)))))

\* Model.filterCommands: the catalog, or the matches best-first.  The
\* result lists the entries by their Command field.
filterCommands(mode, filter) ==
  IF ~mode \/ filter = <<>> \/ filter = <<"/">>
  THEN CatalogCommands
  ELSE matchedCommands(
         SortByScore(<<>>, collectMatches(getAvailableCommands,
                                          ToLower(TrimPrefixSlash(filter)))))

(***************************************************************************)
(* Session state: the fields of Model and of the feature objects it owns.  *)
(***************************************************************************)
VARIABLES
  mode,                    \* Model.mode
  err,                     \* Model.err ("" is nil)
  loading,                 \* Model.loading
  logHistory,              \* Model.logHistory
  searchFilter,            \* Model.searchFilter
  filteredCommands,        \* Model.filteredCommands
  selectedCommandIndex,    \* Model.selectedCommandIndex (0-based)
  searchMode,              \* Model.searchMode
  textInputPrompt,         \* Model.textInputPrompt
  textInputAction,         \* Model.textInputAction
  textInput,               \* Model.textInput value
  selectedDeviceForAction, \* Model.selectedDeviceForAction (0 is the zero value)
  devices,                 \* DevicesFeature.devices
  avds,                    \* DevicesFeature.avds
  selectedDevice,          \* DevicesFeature.selectedDevice (0-based)
  selectedEmulator,        \* DevicesFeature.selectedEmulator (0-based)
  takingScreenshot,        \* MediaFeature.takingScreenshot
  takingDayNight,          \* MediaFeature.takingDayNight
  recordingScreen,         \* MediaFeature.recordingScreen
  activeRecording,         \* MediaFeature.activeRecording
  connectingWiFi,          \* WiFiFeature.connectingWiFi
  disconnectingWiFi,       \* WiFiFeature.disconnectingWiFi
  pairingWiFi,             \* WiFiFeature.pairingWiFi
  pairingAddress,          \* WiFiFeature.pairingAddress
  tasks,                   \* the tea.Cmd goroutines in flight (a bag)
  session,                 \* the part of the catalog this run's user works with
  inserted,                \* every entry handed to addLogEntry (SpecLog only)
  os,                      \* os.Stdout and os.Stderr of the process
  oc,                      \* the OutputCapture of the capture under study
  pipes,                   \* the two os.Pipe of that capture
  readers,                 \* its two readOutput goroutines
  caller,                  \* the goroutine that uses the capture
  eventChan,               \* StartDeviceTracking: the channel of device events
  process,                 \* StartDeviceTracking: cmd.Process of adb track-devices
  scanner,                 \* StartDeviceTracking: the reading goroutine and its input
  cli,                     \* one run of a non-interactive setting command
  captures,                \* the OutputCaptures of CaptureFunction calls that overlap
  waiter,                  \* the goroutine of WaitForDeviceChangeCmd
  dayNight                 \* one run of executeDayNightWithProgress and its device

searchVars == <<searchFilter, filteredCommands, selectedCommandIndex, searchMode>>
textVars   == <<textInputPrompt, textInputAction, textInput>>
deviceVars == <<devices, avds, selectedDevice, selectedEmulator>>
mediaVars  == <<takingScreenshot, takingDayNight, recordingScreen, activeRecording>>
wifiVars   == <<connectingWiFi, disconnectingWiFi, pairingWiFi, pairingAddress>>
\* what the controller never writes
captureVars == <<os, oc, pipes, readers, caller>>
trackVars  == <<eventChan, process, scanner>>
runVars    == <<cli, captures, waiter, dayNight>>
envVars    == <<session, inserted, captureVars, trackVars, runVars>>
miscVars   == <<loading, selectedDeviceForAction, envVars>>

vars == <<mode, err, logHistory, searchVars, textVars, deviceVars, mediaVars,
          wifiVars, miscVars, tasks>>

\* the six activity flags, in one tuple
ActivityFlags == <<takingScreenshot, takingDayNight, recordingScreen,
                   connectingWiFi, disconnectingWiFi, pairingWiFi>>

ModeMenu           == "menu"
ModeDeviceSelect   == "device-select"
ModeEmulatorSelect == "emulator-select"
ModeTextInput      == "text-input"

LogTypeSuccess == "success"
LogTypeError   == "error"

SettingTypes == {"dpi", "fontsize", "screensize"}

\* no ScreenRecording (a nil pointer)
NoRecording == "nil"

\* values of the text input buffer: empty (valid for no setting) and a number (valid for dpi and font size)
InputValues == {<<>>, <<"1">>}

maxLogEntries == 5

(***************************************************************************)
(* The runs are explored one kind of session at a time: in a session the   *)
(* user runs the commands of one part of the catalog, and only the search  *)
(* session types a filter.                                                 *)
(***************************************************************************)
Sessions == {"media", "wifi", "settings", "emulator", "launch", "search", "mixed"}
SessionCommands(s) ==
  CASE s = "media"    -> {"screenshot", "screenshot-day-night", "screen-record"}
    [] s = "wifi"     -> {"connect-wifi", "pair-wifi"}
    [] s = "settings" -> {"dpi"}
    [] s = "emulator" -> {"configure-emulator"}
    [] s = "launch"   -> {"launch-emulator", "refresh-devices"}
    [] s = "search"   -> {"refresh-devices"}
    [] s = "mixed"    -> {"screen-record", "disconnect-wifi"}

(***************************************************************************)
(* Log history (Model.addLogEntry, addSuccess, addError, clearLogs).       *)
(***************************************************************************)
\* a faulty addLogEntry: a full history keeps its oldest entries
addLogEntryKeepingOldest(history, message, logType) ==
  SubSeq(Append(history, [Message |-> message, Type |-> logType]), 1,
         IF Len(history) < maxLogEntries THEN Len(history) + 1 ELSE maxLogEntries)

addLogEntry(history, message, logType) ==
  LET appended == Append(history, [Message |-> message, Type |-> logType])
  IN IF Len(appended) > maxLogEntries
     THEN SubSeq(appended, Len(appended) - maxLogEntries + 1, Len(appended))
     ELSE appended

addSuccess(history, message) == addLogEntry(history, message, LogTypeSuccess)
addError(history, message) == addLogEntry(history, message, LogTypeError)
\* a faulty clearLogs: the newest entry survives
clearLogsKeepingNewest ==
  IF Len(logHistory) > 1 THEN <<logHistory[Len(logHistory)]>> ELSE <<>>
clearLogs == <<>>

(***************************************************************************)
(* Commands in flight.  A task is one scheduled tea.Cmd: cmd names the     *)
(* function that built it, arg and value its parameters, pc where its       *)
(* goroutine is.                                                           *)
(***************************************************************************)
Task(cmd, arg) == [cmd |-> cmd, arg |-> arg, value |-> <<>>, pc |-> "scheduled"]
TaskWithValue(cmd, arg, value) ==
  [cmd |-> cmd, arg |-> arg, value |-> value, pc |-> "scheduled"]
InFlight == BagCardinality(tasks)
CanDispatch == InFlight < MaxInFlight
Dispatch(bag, t) == bag (+) SetToBag({t})
Complete(bag, t) == bag (-) SetToBag({t})

(***************************************************************************)
(* The capture package at rest: the process writes to the terminal and no  *)
(* OutputCapture has been started.                                         *)
(***************************************************************************)
Streams == {"stdout", "stderr"}

\* os.Stdout and os.Stderr as the process starts with them
Terminal == [stdout |-> "terminal stdout", stderr |-> "terminal stderr"]

\* NewOutputCapture: two empty channels, nothing else set
NewOutputCapture ==
  [originalStdout |-> "nil", originalStderr |-> "nil",
   outputCh |-> <<>>, errorCh |-> <<>>, wg |-> 0, capturing |-> FALSE]

NoPipe == [buf |-> <<>>, writerOpen |-> FALSE, readerOpen |-> FALSE]
NoPipes == [stdout |-> NoPipe, stderr |-> NoPipe]
NoReaders == [stdout |-> "none", stderr |-> "none"]
NoScript == [stdout |-> <<>>, stderr |-> <<>>, result |-> "nil"]

\* a goroutine that has called nothing yet
Caller(callerMode, pc, script) ==
  [mode |-> callerMode, pc |-> pc, script |-> script,
   written |-> [stdout |-> 0, stderr |-> 0], fnErr |-> "not called",
   output |-> <<>>, err |-> "nil", calls |-> 0,
   last |-> [call |-> "none", capturing |-> FALSE]]

NoCapture ==
  /\ os = Terminal
  /\ oc = NewOutputCapture
  /\ pipes = NoPipes
  /\ readers = NoReaders
  /\ caller = Caller("none", "idle", NoScript)

\* device tracking not started: "eventChan := make(chan DeviceChangeEvent, 10)"
NoEvents == [buf |-> <<>>, closed |-> FALSE, closes |-> 0]
NoProcess == [state |-> "not started", kills |-> 0]
Scanner(input, end) ==
  [pc |-> "not started", input |-> input, end |-> end, pending |-> <<>>]

NoTracking ==
  /\ eventChan = NoEvents
  /\ process = NoProcess
  /\ scanner = Scanner(<<>>, "EOF")

\* a device without an override of its physical setting
NoOverride == <<>>

\* the state of one run of executeSettingCommand
Cli(pc, settingType, deviceSerial, value, attached, setting) ==
  [pc |-> pc, settingType |-> settingType, deviceSerial |-> deviceSerial,
   value |-> value, attached |-> attached, device |-> "", setting |-> setting,
   calls |-> <<>>, printed |-> <<>>, err |-> ""]

\* no command line run
NoCli == Cli("idle", "dpi", "", <<>>, <<>>, [physical |-> 420, override |-> NoOverride])

\* CaptureFunction calls that may run at the same time
MaxCaptures == 2
CaptureIds == 1..MaxCaptures

\* a CaptureFunction call before NewOutputCapture
NotCalled ==
  [pc |-> "not called", originalStdout |-> "nil", originalStderr |-> "nil",
   capturing |-> FALSE, closed |-> FALSE]

\* no WaitForDeviceChangeCmd running, no DeviceRefreshMsg returned
NoWaiter == [pc |-> "idle", event |-> <<>>, signals |-> <<>>]

\* one run of executeDayNightWithProgress: night is the "cmd uimode night"
\* setting of the device, remote what /sdcard/screenshot.png holds
DayNight(pc, serial, timestamp, night, remote) ==
  [pc |-> pc, serial |-> serial, timestamp |-> timestamp, night |-> night,
   remote |-> remote, calls |-> <<>>, saved |-> {}, progress |-> <<>>, err |-> ""]

NoDayNight == DayNight("idle", "", "", "no", "none")

NoOverlap == captures = [c \in CaptureIds |-> NotCalled]

NoRuns ==
  /\ cli = NoCli
  /\ NoOverlap
  /\ waiter = NoWaiter
  /\ dayNight = NoDayNight

\* NewModel and Model.Init
NewModel ==
  /\ mode = ModeMenu
  /\ err = ""
  /\ loading = TRUE
  /\ logHistory = <<>>
  /\ searchFilter = <<>>
  /\ searchMode = FALSE
  /\ filteredCommands = filterCommands(FALSE, <<>>)
  /\ selectedCommandIndex = 0
  /\ textInputPrompt = ""
  /\ textInputAction = ""
  /\ textInput = <<>>
  /\ selectedDeviceForAction = 0
  /\ devices = <<>>
  /\ avds = <<>>
  /\ selectedDevice = 0
  /\ selectedEmulator = 0
  /\ takingScreenshot = FALSE
  /\ takingDayNight = FALSE
  /\ recordingScreen = FALSE
  /\ activeRecording = NoRecording
  /\ connectingWiFi = FALSE
  /\ disconnectingWiFi = FALSE
  /\ pairingWiFi = FALSE
  /\ pairingAddress = <<>>
  /\ tasks = SetToBag({Task("LoadDevicesCmd", "")})

Init ==
  /\ NewModel
  /\ session \in Sessions
  /\ inserted = <<>>
  /\ NoCapture
  /\ NoTracking
  /\ NoRuns

(***************************************************************************)
(* The tea.Cmd each dispatch helper of commands.go schedules.  The         *)
(* repository holds two revisions of the screenshot, day-night and WiFi     *)
(* command factories: one returns the typed outcome message, the other      *)
(* hands the work to a goroutine and returns a streaming-start message.     *)
(***************************************************************************)
takeScreenshot ==
  {Task("executeScreenshotOperation", "single"), Task("StreamCommand", "screenshot")}
takeDayNightScreenshots ==
  {Task("executeScreenshotOperation", "daynight"),
   Task("createStreamingDayNightCommand", "")}
startRecording == {Task("StartScreenRecordCmd", "")}
stopAndSaveRecording(recording) == {Task("StopAndSaveRecordingCmd", recording)}
getCurrentSetting(settingType) == {Task("LoadSettingCmd", settingType)}
changeSetting(settingType, value) ==
  {TaskWithValue("ChangeSettingCmd", settingType, value)}
ConnectWiFiCmd == {Task("executeWiFiOperation", "connect"), Task("StreamCommand", "connect")}
DisconnectWiFiCmd ==
  {Task("executeWiFiOperation", "disconnect"), Task("StreamCommand", "disconnect")}
PairWiFiCmd == {Task("executeWiFiOperation", "pair"), Task("StreamCommand", "pair")}
loadDevices == {Task("LoadDevicesCmd", "")}
loadAVDs == {Task("LoadAvdsCmd", "")}
configureEmulatorCmd == {Task("configureEmulatorCmd", "")}

\* the handler returns one of the commands of cmds (tea.Batch with the
\* spinner tick, which is presentation)
Returns(cmds) == /\ CanDispatch
                 /\ \E t \in cmds : tasks' = Dispatch(tasks, t)

(***************************************************************************)
(* Dispatch helpers of Model.                                              *)
(***************************************************************************)
executeScreenshot ==
  /\ mode' = ModeMenu
  /\ logHistory' = clearLogs
  /\ err' = ""
  /\ takingScreenshot' = TRUE
  /\ Returns(takeScreenshot)
  /\ UNCHANGED <<searchVars, textVars, deviceVars, wifiVars, miscVars,
                 takingDayNight, recordingScreen, activeRecording>>

executeDayNightScreenshots ==
  /\ mode' = ModeMenu
  /\ logHistory' = clearLogs
  /\ err' = ""
  /\ takingDayNight' = TRUE
  /\ Returns(takeDayNightScreenshots)
  /\ UNCHANGED <<searchVars, textVars, deviceVars, wifiVars, miscVars,
                 takingScreenshot, recordingScreen, activeRecording>>

executeScreenRecord ==
  /\ mode' = ModeMenu
  /\ logHistory' = clearLogs
  /\ err' = ""
  /\ recordingScreen' = TRUE
  /\ Returns(startRecording)
  /\ UNCHANGED <<searchVars, textVars, deviceVars, wifiVars, miscVars,
                 takingScreenshot, takingDayNight, activeRecording>>

\* a startSettingChange that returns to the menu at once
startSettingChangeToMenu(device, settingType) ==
  /\ selectedDeviceForAction' = device
  /\ textInputAction' = settingType
  /\ mode' = ModeMenu
  /\ Returns(getCurrentSetting(settingType))
  /\ UNCHANGED <<err, logHistory, searchVars, textInputPrompt, textInput,
                 deviceVars, mediaVars, wifiVars, loading, envVars>>

startSettingChange(device, settingType) ==
  /\ selectedDeviceForAction' = device
  /\ textInputAction' = settingType
  /\ Returns(getCurrentSetting(settingType))
  /\ UNCHANGED <<mode, err, logHistory, searchVars, textInputPrompt, textInput,
                 deviceVars, mediaVars, wifiVars, loading, envVars>>

SelectedCmd == filteredCommands[selectedCommandIndex + 1]
HasSelection == Len(filteredCommands) > 0 /\ selectedCommandIndex < Len(filteredCommands)

executeCommandForDevice(device) ==
  IF ~HasSelection THEN UNCHANGED vars
  ELSE CASE SelectedCmd = "screenshot"           -> executeScreenshot
         [] SelectedCmd = "screenshot-day-night" -> executeDayNightScreenshots
         [] SelectedCmd = "screen-record"        -> executeScreenRecord
         [] SelectedCmd = "dpi"         -> startSettingChange(device, "dpi")
         [] SelectedCmd = "font-size"   -> startSettingChange(device, "fontsize")
         [] SelectedCmd = "screen-size" -> startSettingChange(device, "screensize")
         [] OTHER                       -> executeScreenshot

\* the three text prompts opened from the menu
openTextInput(prompt, action) ==
  /\ mode' = ModeTextInput
  /\ textInputPrompt' = prompt
  /\ textInputAction' = action
  /\ textInput' = <<>>
  /\ UNCHANGED <<err, logHistory, searchVars, deviceVars, mediaVars, wifiVars,
                 miscVars, tasks>>

\* a faulty executeSelectedCommand: the device list is shown even for one device
executeSelectedCommandAlwaysAsking ==
  IF ~HasSelection THEN UNCHANGED vars
  ELSE CASE SelectedCmd \in {"launch-emulator", "configure-emulator"} ->
              /\ mode' = ModeEmulatorSelect
              /\ Returns(loadAVDs)
              /\ UNCHANGED <<err, logHistory, searchVars, textVars, deviceVars,
                             mediaVars, wifiVars, miscVars>>
         [] SelectedCmd = "connect-wifi" ->
              openTextInput("Connect to WiFi device", "wifi_connect")
         [] SelectedCmd = "pair-wifi" ->
              openTextInput("Pair with WiFi device", "wifi_pair_address")
         [] SelectedCmd = "disconnect-wifi" ->
              openTextInput("Disconnect from WiFi device", "wifi_disconnect")
         [] SelectedCmd = "refresh-devices" ->
              /\ logHistory' = clearLogs
              /\ err' = ""
              /\ Returns(loadDevices)
              /\ UNCHANGED <<mode, searchVars, textVars, deviceVars, mediaVars,
                             wifiVars, miscVars>>
         [] OTHER ->
              IF Len(devices) = 1 /\ FALSE
              THEN executeCommandForDevice(devices[1])
              ELSE /\ mode' = ModeDeviceSelect
                   /\ UNCHANGED <<err, logHistory, searchVars, textVars, deviceVars,
                                  mediaVars, wifiVars, miscVars, tasks>>

\* Model.executeSelectedCommand
executeSelectedCommand ==
  IF ~HasSelection THEN UNCHANGED vars
  ELSE CASE SelectedCmd \in {"launch-emulator", "configure-emulator"} ->
              /\ mode' = ModeEmulatorSelect
              /\ Returns(loadAVDs)
              /\ UNCHANGED <<err, logHistory, searchVars, textVars, deviceVars,
                             mediaVars, wifiVars, miscVars>>
         [] SelectedCmd = "connect-wifi" ->
              openTextInput("Connect to WiFi device", "wifi_connect")
         [] SelectedCmd = "pair-wifi" ->
              openTextInput("Pair with WiFi device", "wifi_pair_address")
         [] SelectedCmd = "disconnect-wifi" ->
              openTextInput("Disconnect from WiFi device", "wifi_disconnect")
         [] SelectedCmd = "refresh-devices" ->
              /\ logHistory' = clearLogs
              /\ err' = ""
              /\ Returns(loadDevices)
              /\ UNCHANGED <<mode, searchVars, textVars, deviceVars, mediaVars,
                             wifiVars, miscVars>>
         [] OTHER ->
              IF Len(devices) = 1
              THEN executeCommandForDevice(devices[1])
              ELSE /\ mode' = ModeDeviceSelect
                   /\ UNCHANGED <<err, logHistory, searchVars, textVars, deviceVars,
                                  mediaVars, wifiVars, miscVars, tasks>>

\* Model.stopRecording
stopRecording ==
  IF activeRecording # NoRecording
  THEN /\ Returns(stopAndSaveRecording(activeRecording))
       /\ UNCHANGED <<mode, err, logHistory, searchVars, textVars, deviceVars,
                      mediaVars, wifiVars, miscVars>>
  ELSE /\ recordingScreen' = FALSE
       /\ activeRecording' = NoRecording
       /\ UNCHANGED <<mode, err, logHistory, searchVars, textVars, deviceVars,
                      takingScreenshot, takingDayNight, wifiVars, miscVars, tasks>>

\* Model.executeSettingChange: the mode stays text-input
executeSettingChange(settingType) ==
  /\ textInput' = <<>>
  /\ Returns(changeSetting(settingType, textInput))
  /\ UNCHANGED <<mode, err, logHistory, searchVars, textInputPrompt,
                 textInputAction, deviceVars, mediaVars, wifiVars, miscVars>>

executeWiFiConnect ==
  /\ mode' = ModeMenu
  /\ logHistory' = clearLogs
  /\ err' = ""
  /\ textInput' = <<>>
  /\ textInputPrompt' = ""
  /\ textInputAction' = ""
  /\ connectingWiFi' = TRUE
  /\ Returns(ConnectWiFiCmd)
  /\ UNCHANGED <<searchVars, deviceVars, mediaVars, disconnectingWiFi,
                 pairingWiFi, pairingAddress, miscVars>>

executeWiFiDisconnect ==
  /\ mode' = ModeMenu
  /\ logHistory' = clearLogs
  /\ err' = ""
  /\ textInput' = <<>>
  /\ textInputPrompt' = ""
  /\ textInputAction' = ""
  /\ disconnectingWiFi' = TRUE
  /\ Returns(DisconnectWiFiCmd)
  /\ UNCHANGED <<searchVars, deviceVars, mediaVars, connectingWiFi,
                 pairingWiFi, pairingAddress, miscVars>>

handlePairingAddressInput ==
  /\ pairingAddress' = textInput
  /\ textInput' = <<>>
  /\ textInputPrompt' = "Enter pairing code"
  /\ textInputAction' = "wifi_pair_code"
  /\ UNCHANGED <<mode, err, logHistory, searchVars, deviceVars, mediaVars,
                 connectingWiFi, disconnectingWiFi, pairingWiFi, miscVars, tasks>>

executeWiFiPair ==
  /\ mode' = ModeMenu
  /\ logHistory' = clearLogs
  /\ err' = ""
  /\ textInput' = <<>>
  /\ textInputPrompt' = ""
  /\ textInputAction' = ""
  /\ pairingAddress' = <<>>
  /\ pairingWiFi' = TRUE
  /\ Returns(PairWiFiCmd)
  /\ UNCHANGED <<searchVars, deviceVars, mediaVars, connectingWiFi,
                 disconnectingWiFi, miscVars>>

\* leaving text input: back to the menu with the prompt state cleared
resetTextInput ==
  /\ mode' = ModeMenu
  /\ textInput' = <<>>
  /\ textInputPrompt' = ""
  /\ textInputAction' = ""
  /\ UNCHANGED <<err, logHistory, searchVars, deviceVars, mediaVars, wifiVars,
                 miscVars, tasks>>

handleTextInputSubmit ==
  CASE textInputAction \in SettingTypes       -> executeSettingChange(textInputAction)
    [] textInputAction = "wifi_connect"      -> executeWiFiConnect
    [] textInputAction = "wifi_disconnect"   -> executeWiFiDisconnect
    [] textInputAction = "wifi_pair_address" -> handlePairingAddressInput
    [] textInputAction = "wifi_pair_code"    -> executeWiFiPair
    [] OTHER                                 -> resetTextInput

\* DevicesFeature.GetSelectedEmulatorInstance is nil
NoEmulatorSelected == selectedEmulator >= Len(avds)

\* Model.launchEmulator with DevicesFeature.LaunchSelectedEmulator;
\* emulator.LaunchEmulator runs inside the handler and may fail
launchEmulator ==
  /\ mode' = ModeMenu
  /\ \/ /\ NoEmulatorSelected
        /\ err' = "no emulator selected"
        /\ UNCHANGED <<logHistory, tasks>>
     \/ /\ ~NoEmulatorSelected
        /\ err' = "failed to launch emulator"
        /\ UNCHANGED <<logHistory, tasks>>
     \/ /\ ~NoEmulatorSelected
        /\ logHistory' = addSuccess(logHistory, <<"Launched emulator">>)
        /\ err' = ""
        /\ Returns(loadDevices)
  /\ UNCHANGED <<searchVars, textVars, deviceVars, mediaVars, wifiVars, miscVars>>

configureEmulator ==
  /\ mode' = ModeMenu
  /\ IF NoEmulatorSelected
     THEN /\ err' = "no emulator selected"
          /\ UNCHANGED tasks
     ELSE /\ err' = ""
          /\ Returns(configureEmulatorCmd)
  /\ UNCHANGED <<logHistory, searchVars, textVars, deviceVars, mediaVars, wifiVars,
                 miscVars>>

executeEmulatorCommand ==
  IF ~HasSelection THEN UNCHANGED vars
  ELSE CASE SelectedCmd = "launch-emulator"    -> launchEmulator
         [] SelectedCmd = "configure-emulator" -> configureEmulator
         [] OTHER                              -> launchEmulator

(***************************************************************************)
(* Model.handleKeyPress, one action per key and mode.  Escape, Cancel and  *)
(* StopRecording are all bound to "esc" (DefaultKeyMap); while the         *)
(* recording flag is set the esc key is taken by the stop-recording check  *)
(* before the mode is looked at.                                           *)
(***************************************************************************)
KeyStopRecording ==
  /\ recordingScreen
  /\ stopRecording

\* a faulty refilter: the search state changes and the filtered list is kept
refilterKeepingList(newMode, newFilter) ==
  /\ searchMode' = newMode
  /\ searchFilter' = newFilter
  /\ UNCHANGED filteredCommands

\* "m.filteredCommands = m.filterCommands()" after the search state changed
refilter(newMode, newFilter) ==
  /\ searchMode' = newMode
  /\ searchFilter' = newFilter
  /\ filteredCommands' = filterCommands(newMode, newFilter)

KeyMenuEscape ==
  /\ ~recordingScreen
  /\ mode = ModeMenu
  /\ IF searchMode
     THEN /\ refilter(FALSE, <<>>)
          /\ selectedCommandIndex' = 0
     ELSE UNCHANGED searchVars
  /\ UNCHANGED <<mode, err, logHistory, textVars, deviceVars, mediaVars, wifiVars,
                 miscVars, tasks>>

KeyMenuUp ==
  /\ mode = ModeMenu
  /\ selectedCommandIndex' =
       IF selectedCommandIndex > 0 THEN selectedCommandIndex - 1
       ELSE selectedCommandIndex
  /\ UNCHANGED <<mode, err, logHistory, searchFilter, filteredCommands, searchMode,
                 textVars, deviceVars, mediaVars, wifiVars, miscVars, tasks>>

KeyMenuDown ==
  /\ mode = ModeMenu
  /\ selectedCommandIndex' =
       IF selectedCommandIndex < Len(filteredCommands) - 1
       THEN selectedCommandIndex + 1
       ELSE selectedCommandIndex
  /\ UNCHANGED <<mode, err, logHistory, searchFilter, filteredCommands, searchMode,
                 textVars, deviceVars, mediaVars, wifiVars, miscVars, tasks>>

KeyMenuEnter ==
  /\ mode = ModeMenu
  /\ executeSelectedCommand

\* the search filter once its last character is removed: search mode ends
\* if only "/" or nothing remains
shortenFilter(cut) ==
  /\ refilter(IF cut = <<"/">> \/ cut = <<>> THEN FALSE ELSE searchMode,
              IF cut = <<"/">> \/ cut = <<>> THEN <<>> ELSE cut)
  /\ selectedCommandIndex' =
       IF selectedCommandIndex >= Len(filteredCommands') THEN 0
       ELSE selectedCommandIndex

KeyMenuBackspace ==
  /\ mode = ModeMenu
  /\ IF searchMode /\ Len(searchFilter) > 0
     THEN shortenFilter(SubSeq(searchFilter, 1, Len(searchFilter) - 1))
     ELSE UNCHANGED searchVars
  /\ UNCHANGED <<mode, err, logHistory, textVars, deviceVars, mediaVars, wifiVars,
                 miscVars, tasks>>

\* a faulty KeyMenuType: the selection index survives the new filter
KeyMenuTypeKeepingIndex(char) ==
  /\ mode = ModeMenu
  /\ IF (char = "/" /\ ~searchMode) \/ searchMode
     THEN /\ searchMode => Len(searchFilter) < MaxFilterLen
          /\ refilter(TRUE, IF searchMode THEN Append(searchFilter, char)
                            ELSE <<"/">>)
          /\ UNCHANGED selectedCommandIndex
     ELSE UNCHANGED searchVars
  /\ UNCHANGED <<mode, err, logHistory, textVars, deviceVars, mediaVars, wifiVars,
                 miscVars, tasks>>

\* a KeyMenuType without the search mode: every character is appended
KeyMenuTypeAlways(char) ==
  /\ mode = ModeMenu
  /\ Len(searchFilter) < MaxFilterLen
  /\ refilter(searchMode, Append(searchFilter, char))
  /\ selectedCommandIndex' = 0
  /\ UNCHANGED <<mode, err, logHistory, textVars, deviceVars, mediaVars, wifiVars,
                 miscVars, tasks>>

\* a one-character key that is none of the bindings above
KeyMenuType(char) ==
  /\ mode = ModeMenu
  /\ IF (char = "/" /\ ~searchMode) \/ searchMode
     THEN /\ searchMode => Len(searchFilter) < MaxFilterLen
          /\ refilter(TRUE, IF searchMode THEN Append(searchFilter, char)
                            ELSE <<"/">>)
          /\ selectedCommandIndex' = 0
     ELSE UNCHANGED searchVars
  /\ UNCHANGED <<mode, err, logHistory, textVars, deviceVars, mediaVars, wifiVars,
                 miscVars, tasks>>

KeyDeviceSelectEscape ==
  /\ ~recordingScreen
  /\ mode = ModeDeviceSelect
  /\ mode' = ModeMenu
  /\ UNCHANGED <<err, logHistory, searchVars, textVars, deviceVars, mediaVars,
                 wifiVars, miscVars, tasks>>

\* DevicesFeature.SetSelectedDevice
SetSelectedDevice(index) ==
  selectedDevice' = IF index >= 0 /\ index < Len(devices) THEN index
                    ELSE selectedDevice

KeyDeviceSelectUp ==
  /\ mode = ModeDeviceSelect
  /\ IF selectedDevice > 0 THEN SetSelectedDevice(selectedDevice - 1)
     ELSE UNCHANGED selectedDevice
  /\ UNCHANGED <<mode, err, logHistory, searchVars, textVars, devices, avds,
                 selectedEmulator, mediaVars, wifiVars, miscVars, tasks>>

KeyDeviceSelectDown ==
  /\ mode = ModeDeviceSelect
  /\ IF selectedDevice < Len(devices) - 1 THEN SetSelectedDevice(selectedDevice + 1)
     ELSE UNCHANGED selectedDevice
  /\ UNCHANGED <<mode, err, logHistory, searchVars, textVars, devices, avds,
                 selectedEmulator, mediaVars, wifiVars, miscVars, tasks>>

KeyDeviceSelectEnter ==
  /\ mode = ModeDeviceSelect
  /\ IF selectedDevice < Len(devices)
     THEN executeCommandForDevice(devices[selectedDevice + 1])
     ELSE UNCHANGED vars

KeyEmulatorSelectEscape ==
  /\ ~recordingScreen
  /\ mode = ModeEmulatorSelect
  /\ mode' = ModeMenu
  /\ UNCHANGED <<err, logHistory, searchVars, textVars, deviceVars, mediaVars,
                 wifiVars, miscVars, tasks>>

\* DevicesFeature.SetSelectedEmulator
SetSelectedEmulator(index) ==
  selectedEmulator' = IF index >= 0 /\ index < Len(avds) THEN index
                      ELSE selectedEmulator

KeyEmulatorSelectUp ==
  /\ mode = ModeEmulatorSelect
  /\ IF selectedEmulator > 0 THEN SetSelectedEmulator(selectedEmulator - 1)
     ELSE UNCHANGED selectedEmulator
  /\ UNCHANGED <<mode, err, logHistory, searchVars, textVars, devices, avds,
                 selectedDevice, mediaVars, wifiVars, miscVars, tasks>>

KeyEmulatorSelectDown ==
  /\ mode = ModeEmulatorSelect
  /\ IF selectedEmulator < Len(avds) - 1 THEN SetSelectedEmulator(selectedEmulator + 1)
     ELSE UNCHANGED selectedEmulator
  /\ UNCHANGED <<mode, err, logHistory, searchVars, textVars, devices, avds,
                 selectedDevice, mediaVars, wifiVars, miscVars, tasks>>

KeyEmulatorSelectEnter ==
  /\ mode = ModeEmulatorSelect
  /\ executeEmulatorCommand

KeyTextInputSubmit ==
  /\ mode = ModeTextInput
  /\ handleTextInputSubmit

\* a faulty cancel: it also refreshes the device list
KeyTextInputCancelRefreshing ==
  /\ ~recordingScreen
  /\ mode = ModeTextInput
  /\ mode' = ModeMenu
  /\ textInput' = <<>>
  /\ textInputPrompt' = ""
  /\ textInputAction' = ""
  /\ Returns(loadDevices)
  /\ UNCHANGED <<err, logHistory, searchVars, deviceVars, mediaVars, wifiVars,
                 miscVars>>

KeyTextInputCancel ==
  /\ ~recordingScreen
  /\ mode = ModeTextInput
  /\ resetTextInput

\* any other key goes to the text input component, which edits its value
KeyTextInputEdit ==
  /\ mode = ModeTextInput
  /\ \E v \in InputValues \ {textInput} : textInput' = v
  /\ UNCHANGED <<mode, err, logHistory, searchVars, textInputPrompt,
                 textInputAction, deviceVars, mediaVars, wifiVars, miscVars, tasks>>

\* handleKeyPress for the esc key and for the enter key, whatever the mode
KeyEsc == \/ KeyStopRecording
          \/ KeyMenuEscape
          \/ KeyDeviceSelectEscape
          \/ KeyEmulatorSelectEscape
          \/ KeyTextInputCancel

KeyEnter == \/ KeyMenuEnter
            \/ KeyDeviceSelectEnter
            \/ KeyEmulatorSelectEnter
            \/ KeyTextInputSubmit

(***************************************************************************)
(* Input validation of the setting handlers (dpiHandler, fontSizeHandler,  *)
(* screenSizeHandler ValidateInput), on a value given as its characters.   *)
(***************************************************************************)
Digits == {"0", "1", "2", "3", "4", "5", "6", "7", "8", "9"}

\* strconv.Atoi succeeds on the unsigned values the model types
IsNumber(s) == Len(s) > 0 /\ \A i \in 1..Len(s) : s[i] \in Digits

ValidateInput(settingType, value) ==
  IF settingType = "screensize"
  THEN \E k \in 1..Len(value) :
         /\ value[k] = "x"
         /\ IsNumber(SubSeq(value, 1, k - 1))
         /\ IsNumber(SubSeq(value, k + 1, Len(value)))
  ELSE IsNumber(value)

(***************************************************************************)
(* The goroutines of the scheduled commands.  A command that wraps its     *)
(* work in capture.CaptureCommand is between OutputCapture.Start and       *)
(* OutputCapture.Stop while its pc is "capturing".                         *)
(***************************************************************************)
CaptureCmds == {"executeWiFiOperation", "executeScreenshotOperation",
                "StopAndSaveRecordingCmd"}

TasksAt(cmd, pc) == {t \in BagToSet(tasks) : t.cmd = cmd /\ t.pc = pc}
At(t, pc) == [t EXCEPT !.pc = pc]
Move(t, pc) == tasks' = Dispatch(Complete(tasks, t), At(t, pc))

\* the text os/exec and adb report on a failure
ErrorText == "exit status 1"

\* CaptureFunction of a command that returns a typed outcome: a new
\* OutputCapture is started, whatever the other goroutines do
CaptureStart ==
  /\ \E t \in BagToSet(tasks) :
       /\ t.cmd \in CaptureCmds
       /\ t.pc = "scheduled"
       /\ Move(t, "capturing")
  /\ UNCHANGED <<mode, err, logHistory, searchVars, textVars, deviceVars,
                 mediaVars, wifiVars, miscVars>>

\* a faulty Update with a case for GenericStreamingStart that logs the start
GenericStreamingStartLogged ==
  /\ \E t \in TasksAt("StreamCommand", "scheduled") : Move(t, "spawned")
  /\ logHistory' = addSuccess(logHistory, <<"Streaming started">>)
  /\ UNCHANGED <<mode, err, searchVars, textVars, deviceVars,
                 mediaVars, wifiVars, miscVars>>

\* StreamCommand's tea.Cmd starts the goroutine and returns
\* GenericStreamingStart, for which Update has no case
GenericStreamingStart ==
  /\ \E t \in TasksAt("StreamCommand", "scheduled") : Move(t, "spawned")
  /\ UNCHANGED <<mode, err, logHistory, searchVars, textVars, deviceVars,
                 mediaVars, wifiVars, miscVars>>

\* the goroutine of StreamCommand enters capture.CaptureCommand
StreamCaptureStart ==
  /\ \E t \in TasksAt("StreamCommand", "spawned") : Move(t, "capturing")
  /\ UNCHANGED <<mode, err, logHistory, searchVars, textVars, deviceVars,
                 mediaVars, wifiVars, miscVars>>

\* the goroutine stops the capture, writes what it captured to its channel,
\* which nobody reads, and ends
StreamCommandExit ==
  /\ \E t \in TasksAt("StreamCommand", "capturing") : tasks' = Complete(tasks, t)
  /\ UNCHANGED <<mode, err, logHistory, searchVars, textVars, deviceVars,
                 mediaVars, wifiVars, miscVars>>

\* createStreamingDayNightCommand starts its goroutine and returns
\* StreamingCommandStart, for which Update has no case
StreamingCommandStart ==
  /\ \E t \in TasksAt("createStreamingDayNightCommand", "scheduled") :
       Move(t, "spawned")
  /\ UNCHANGED <<mode, err, logHistory, searchVars, textVars, deviceVars,
                 mediaVars, wifiVars, miscVars>>

\* executeDayNightWithProgress ends
StreamingDayNightExit ==
  /\ \E t \in TasksAt("createStreamingDayNightCommand", "spawned") :
       tasks' = Complete(tasks, t)
  /\ UNCHANGED <<mode, err, logHistory, searchVars, textVars, deviceVars,
                 mediaVars, wifiVars, miscVars>>

(***************************************************************************)
(* Model.Update, one action per message type.  The message is produced by  *)
(* the command that ends and is handled in the same step.                  *)
(***************************************************************************)
DeviceLists == {[i \in 1..n |-> i] : n \in 0..MaxDevices}
AvdLists == {[i \in 1..n |-> i] : n \in 0..MaxAvds}

\* a faulty devicesLoadedMsg: SetDevices keeps the old index whatever the new length
devicesLoadedMsgKeepingIndex ==
  /\ \E t \in TasksAt("LoadDevicesCmd", "scheduled") : tasks' = Complete(tasks, t)
  /\ \E list \in DeviceLists, failed \in BOOLEAN :
       /\ failed => list = <<>>
       /\ devices' = list
       /\ err' = IF failed THEN ErrorText
                 ELSE IF Len(list) = 0 THEN "no devices connected"
                 ELSE ""
  /\ loading' = FALSE
  /\ UNCHANGED <<mode, logHistory, searchVars, textVars, avds, selectedEmulator,
                 selectedDevice, mediaVars, wifiVars, selectedDeviceForAction, envVars>>

devicesLoadedMsg ==
  /\ \E t \in TasksAt("LoadDevicesCmd", "scheduled") : tasks' = Complete(tasks, t)
  /\ \E list \in DeviceLists, failed \in BOOLEAN :
       /\ failed => list = <<>>
       /\ devices' = list
       /\ selectedDevice' = IF selectedDevice >= Len(list) THEN 0 ELSE selectedDevice
       /\ err' = IF failed THEN ErrorText
                 ELSE IF Len(list) = 0 THEN "no devices connected"
                 ELSE ""
  /\ loading' = FALSE
  /\ UNCHANGED <<mode, logHistory, searchVars, textVars, avds, selectedEmulator,
                 mediaVars, wifiVars, selectedDeviceForAction, envVars>>

avdsLoadedMsg ==
  /\ \E t \in TasksAt("LoadAvdsCmd", "scheduled") : tasks' = Complete(tasks, t)
  /\ \E list \in AvdLists, failed \in BOOLEAN :
       /\ failed => list = <<>>
       /\ avds' = list
       /\ selectedEmulator' =
            IF selectedEmulator >= Len(list) THEN 0 ELSE selectedEmulator
       /\ IF failed
          THEN err' = ErrorText /\ mode' = ModeMenu
          ELSE UNCHANGED <<err, mode>>
  /\ UNCHANGED <<logHistory, searchVars, textVars, devices, selectedDevice,
                 mediaVars, wifiVars, miscVars>>

\* a faulty LogOutcome: a failure is logged with success severity
LogOutcomeAsSuccess(success, message, failurePrefix) ==
  /\ logHistory' = IF success THEN addSuccess(logHistory, <<message>>)
                   ELSE addSuccess(logHistory, <<failurePrefix, message>>)
  /\ err' = ""

\* what Update does with the success and error strings a feature returns
LogOutcome(success, message, failurePrefix) ==
  /\ logHistory' = IF success THEN addSuccess(logHistory, <<message>>)
                   ELSE addError(logHistory, <<failurePrefix, message>>)
  /\ err' = ""

screenshotDoneMsg(success) ==
  /\ \E t \in TasksAt("executeScreenshotOperation", "capturing") :
       /\ t.arg = "single"
       /\ tasks' = Complete(tasks, t)
  /\ takingScreenshot' = FALSE
  /\ LogOutcome(success, IF success THEN "Screenshot captured" ELSE ErrorText,
                "Screenshot failed: ")
  /\ UNCHANGED <<mode, searchVars, textVars, deviceVars, takingDayNight,
                 recordingScreen, activeRecording, wifiVars, miscVars>>

dayNightScreenshotDoneMsg(success) ==
  /\ \E t \in TasksAt("executeScreenshotOperation", "capturing") :
       /\ t.arg = "daynight"
       /\ tasks' = Complete(tasks, t)
  /\ takingDayNight' = FALSE
  /\ LogOutcome(success,
                IF success THEN "Day-night screenshots captured" ELSE ErrorText,
                "Day-night screenshots failed: ")
  /\ UNCHANGED <<mode, searchVars, textVars, deviceVars, takingScreenshot,
                 recordingScreen, activeRecording, wifiVars, miscVars>>

\* the ScreenRecording a successful StartScreenRecord returns
Recording == "recording"

recordingStartedMsg(success) ==
  /\ \E t \in TasksAt("StartScreenRecordCmd", "scheduled") :
       tasks' = Complete(tasks, t)
  /\ IF success
     THEN /\ activeRecording' = Recording
          /\ UNCHANGED <<recordingScreen, err>>
     ELSE /\ recordingScreen' = FALSE
          /\ err' = "Failed to start recording"
          /\ UNCHANGED activeRecording
  /\ UNCHANGED <<mode, logHistory, searchVars, textVars, deviceVars,
                 takingScreenshot, takingDayNight, wifiVars, miscVars>>

\* a faulty screenRecordDoneMsg: it clears every media flag
screenRecordDoneMsgClearingAll(success) ==
  /\ \E t \in TasksAt("StopAndSaveRecordingCmd", "capturing") :
       tasks' = Complete(tasks, t)
  /\ recordingScreen' = FALSE
  /\ takingScreenshot' = FALSE
  /\ takingDayNight' = FALSE
  /\ activeRecording' = NoRecording
  /\ logHistory' = IF success THEN addSuccess(logHistory, <<"Screen recording saved">>)
                   ELSE addError(logHistory, <<"Screen recording failed: ", ErrorText>>)
  /\ err' = ""
  /\ UNCHANGED <<mode, searchVars, textVars, deviceVars, wifiVars, miscVars>>

screenRecordDoneMsg(success) ==
  /\ \E t \in TasksAt("StopAndSaveRecordingCmd", "capturing") :
       tasks' = Complete(tasks, t)
  /\ recordingScreen' = FALSE
  /\ activeRecording' = NoRecording
  /\ LogOutcome(success, IF success THEN "Screen recording saved" ELSE ErrorText,
                "Screen recording failed: ")
  /\ UNCHANGED <<mode, searchVars, textVars, deviceVars, takingScreenshot,
                 takingDayNight, wifiVars, miscVars>>

settingLoadedMsg(success) ==
  /\ \E t \in TasksAt("LoadSettingCmd", "scheduled") : tasks' = Complete(tasks, t)
  /\ IF success
     THEN /\ mode' = ModeTextInput
          /\ textInputPrompt' = "Device setting"
          /\ UNCHANGED err
     ELSE /\ mode' = ModeMenu
          /\ err' = "failed to get current setting"
          /\ UNCHANGED textInputPrompt
  /\ UNCHANGED <<logHistory, searchVars, textInputAction, textInput, deviceVars,
                 mediaVars, wifiVars, miscVars>>

\* a faulty settingChangedMsg: the command changes the setting without
\* validating the value first
settingChangedMsgUnvalidated(success) ==
  /\ \E t \in TasksAt("ChangeSettingCmd", "scheduled") :
       /\ tasks' = IF success
                   THEN Dispatch(Complete(tasks, t), Task("LoadSettingCmd", t.arg))
                   ELSE Complete(tasks, t)
       /\ logHistory' =
            IF success
            THEN addSuccess(logHistory,
                            <<"Setting changed successfully: ", t.arg>> \o t.value)
            ELSE addError(logHistory,
                          <<"Setting change failed: ", t.arg>> \o t.value)
  /\ err' = ""
  /\ UNCHANGED <<mode, searchVars, textVars, deviceVars, mediaVars, wifiVars,
                 miscVars>>

\* ChangeSettingCmd and the settingChangedMsg case: a success schedules
\* LoadSettingCmd for the changed setting
settingChangedMsg(success) ==
  /\ \E t \in TasksAt("ChangeSettingCmd", "scheduled") :
       /\ success => ValidateInput(t.arg, t.value)
       /\ tasks' = IF success
                   THEN Dispatch(Complete(tasks, t), Task("LoadSettingCmd", t.arg))
                   ELSE Complete(tasks, t)
       /\ logHistory' =
            IF success
            THEN addSuccess(logHistory,
                            <<"Setting changed successfully: ", t.arg>> \o t.value)
            ELSE addError(logHistory,
                          <<"Setting change failed: ", t.arg>> \o t.value)
  /\ err' = ""
  /\ UNCHANGED <<mode, searchVars, textVars, deviceVars, mediaVars, wifiVars,
                 miscVars>>

\* a faulty WiFiDone: a failure also refreshes the device list
WiFiDoneRefreshing(operation, success, successMessage, failurePrefix) ==
  /\ \E t \in TasksAt("executeWiFiOperation", "capturing") :
       /\ t.arg = operation
       /\ tasks' = Dispatch(Complete(tasks, t), Task("LoadDevicesCmd", ""))
  /\ logHistory' = IF success THEN addSuccess(logHistory, <<successMessage>>)
                   ELSE addError(logHistory, <<failurePrefix, ErrorText>>)
  /\ err' = ""
  /\ mode' = IF success THEN ModeMenu ELSE mode
  /\ UNCHANGED <<searchVars, textVars, deviceVars, mediaVars, pairingAddress,
                 miscVars>>

\* a faulty WiFiDone: a success does not refresh the device list
WiFiDoneNotRefreshing(operation, success, successMessage, failurePrefix) ==
  /\ \E t \in TasksAt("executeWiFiOperation", "capturing") :
       /\ t.arg = operation
       /\ tasks' = Complete(tasks, t)
  /\ LogOutcome(success, IF success THEN successMessage ELSE ErrorText,
                failurePrefix)
  /\ mode' = IF success THEN ModeMenu ELSE mode
  /\ UNCHANGED <<searchVars, textVars, deviceVars, mediaVars, pairingAddress,
                 miscVars>>

\* the three WiFi outcome cases share their shape (executeWiFiOperation)
WiFiDone(operation, success, successMessage, failurePrefix) ==
  /\ \E t \in TasksAt("executeWiFiOperation", "capturing") :
       /\ t.arg = operation
       /\ tasks' = IF success
                   THEN Dispatch(Complete(tasks, t), Task("LoadDevicesCmd", ""))
                   ELSE Complete(tasks, t)
  /\ LogOutcome(success, IF success THEN successMessage ELSE ErrorText,
                failurePrefix)
  /\ mode' = IF success THEN ModeMenu ELSE mode
  /\ UNCHANGED <<searchVars, textVars, deviceVars, mediaVars, pairingAddress,
                 miscVars>>

wifiConnectDoneMsg(success) ==
  /\ WiFiDone("connect", success, "WiFi device connected", "WiFi connect failed: ")
  /\ connectingWiFi' = FALSE
  /\ UNCHANGED <<disconnectingWiFi, pairingWiFi>>

wifiDisconnectDoneMsg(success) ==
  /\ WiFiDone("disconnect", success, "WiFi device disconnected",
              "WiFi disconnect failed: ")
  /\ disconnectingWiFi' = FALSE
  /\ UNCHANGED <<connectingWiFi, pairingWiFi>>

wifiPairDoneMsg(success) ==
  /\ WiFiDone("pair", success, "WiFi device paired and connected",
              "WiFi pair failed: ")
  /\ pairingWiFi' = FALSE
  /\ UNCHANGED <<connectingWiFi, disconnectingWiFi>>

emulatorConfigureDoneMsg(success) ==
  /\ \E t \in TasksAt("configureEmulatorCmd", "scheduled") :
       tasks' = Complete(tasks, t)
  /\ logHistory' =
       IF success THEN addSuccess(logHistory, <<"Emulator configuration updated">>)
       ELSE addError(logHistory, <<"Failed to open editor: ", ErrorText>>)
  /\ err' = ""
  /\ UNCHANGED <<mode, searchVars, textVars, deviceVars, mediaVars, wifiVars,
                 miscVars>>

(***************************************************************************)
(* The program: keystrokes, goroutine steps and delivered messages.        *)
(***************************************************************************)
\* the user runs a command of the session
RunsSessionCommand == HasSelection => SelectedCmd \in SessionCommands(session)

\* outside the search session the user moves the cursor down only towards a
\* command of the session
MovesTowardsSessionCommand ==
  \/ session = "search"
  \/ \E i \in (selectedCommandIndex + 2)..Len(filteredCommands) :
       filteredCommands[i] \in SessionCommands(session)

KeyMsg ==
  \/ KeyStopRecording
  \/ KeyMenuEscape
  \/ KeyMenuUp
  \/ MovesTowardsSessionCommand /\ KeyMenuDown
  \/ RunsSessionCommand /\ KeyMenuEnter
  \/ session = "search" /\ KeyMenuBackspace
  \/ session = "search" /\ \E char \in TypedChars \cup {"/"} : KeyMenuType(char)
  \/ KeyDeviceSelectEscape
  \/ KeyDeviceSelectUp
  \/ KeyDeviceSelectDown
  \/ KeyDeviceSelectEnter
  \/ KeyEmulatorSelectEscape
  \/ KeyEmulatorSelectUp
  \/ KeyEmulatorSelectDown
  \/ KeyEmulatorSelectEnter
  \/ KeyTextInputSubmit
  \/ KeyTextInputCancel
  \/ KeyTextInputEdit

GoroutineStep ==
  \/ CaptureStart
  \/ GenericStreamingStart
  \/ StreamCaptureStart
  \/ StreamCommandExit
  \/ StreamingCommandStart
  \/ StreamingDayNightExit

OutcomeMsg ==
  \/ \E success \in BOOLEAN : screenshotDoneMsg(success)
  \/ \E success \in BOOLEAN : dayNightScreenshotDoneMsg(success)
  \/ \E success \in BOOLEAN : recordingStartedMsg(success)
  \/ \E success \in BOOLEAN : screenRecordDoneMsg(success)
  \/ \E success \in BOOLEAN : settingChangedMsg(success)
  \/ \E success \in BOOLEAN : wifiConnectDoneMsg(success)
  \/ \E success \in BOOLEAN : wifiDisconnectDoneMsg(success)
  \/ \E success \in BOOLEAN : wifiPairDoneMsg(success)
  \/ \E success \in BOOLEAN : emulatorConfigureDoneMsg(success)

Update ==
  \/ KeyMsg
  \/ devicesLoadedMsg
  \/ avdsLoadedMsg
  \/ \E success \in BOOLEAN : settingLoadedMsg(success)
  \/ OutcomeMsg

Next == Update \/ GoroutineStep

Spec == Init /\ [][Next]_vars

(***************************************************************************)
(* addLogEntry on its own: every sequence of calls, from an empty history. *)
(***************************************************************************)
MaxInserted == 7

LogMessages == {<<"Screenshot captured">>, <<"Screenshot failed: ", ErrorText>>}

InitLog ==
  /\ NewModel
  /\ session = "log"
  /\ inserted = <<>>
  /\ NoCapture
  /\ NoTracking
  /\ NoRuns

\* one call of addLogEntry
AddLogEntry(message, logType) ==
  /\ Len(inserted) < MaxInserted
  /\ logHistory' = addLogEntry(logHistory, message, logType)
  /\ err' = ""
  /\ inserted' = Append(inserted, [Message |-> message, Type |-> logType])
  /\ UNCHANGED <<mode, searchVars, textVars, deviceVars, mediaVars, wifiVars,
                 loading, selectedDeviceForAction, session, captureVars, trackVars,
                 runVars, tasks>>

NextLog ==
  \E message \in LogMessages, logType \in {LogTypeSuccess, LogTypeError} :
    AddLogEntry(message, logType)

SpecLog == InitLog /\ [][NextLog]_vars

(***************************************************************************)
(* Activity flags and the operations that own them.                        *)
(***************************************************************************)
Flags ==
  [screenshot |-> takingScreenshot, daynight |-> takingDayNight,
   recording |-> recordingScreen, connect |-> connectingWiFi,
   disconnect |-> disconnectingWiFi, pair |-> pairingWiFi]
FlagNames == DOMAIN Flags

\* the flag of the operation a task belongs to ("none" for the loaders,
\* the settings commands and the emulator editor)
OperationOf(t) ==
  CASE t.cmd = "executeScreenshotOperation" /\ t.arg = "single" -> "screenshot"
    [] t.cmd = "executeScreenshotOperation" /\ t.arg = "daynight" -> "daynight"
    [] t.cmd = "createStreamingDayNightCommand" -> "daynight"
    [] t.cmd \in {"StartScreenRecordCmd", "StopAndSaveRecordingCmd"} -> "recording"
    [] t.cmd = "executeWiFiOperation" -> t.arg
    [] t.cmd = "StreamCommand" -> t.arg
    [] OTHER -> "none"

\* some goroutine of operation f is still running (for the recording: or
\* the recording itself is)
OperationRunning(f) ==
  \/ \E t \in BagToSet(tasks) : OperationOf(t) = f
  \/ f = "recording" /\ activeRecording # NoRecording

\* this step schedules a command of operation f
DispatchesOperation(f) ==
  \E t \in BagToSet(tasks') :
    /\ t.pc = "scheduled"
    /\ OperationOf(t) = f
    /\ CopiesIn(t, tasks') > CopiesIn(t, tasks)
Dispatches == \E t \in BagToSet(tasks') : CopiesIn(t, tasks') > CopiesIn(t, tasks)

\* this step is Update receiving the message that ends operation f
CompletionMsgOf(f) ==
  CASE f = "screenshot" -> \E success \in BOOLEAN : screenshotDoneMsg(success)
    [] f = "daynight"   -> \E success \in BOOLEAN : dayNightScreenshotDoneMsg(success)
    [] f = "recording"  -> \/ recordingStartedMsg(FALSE)
                           \/ \E success \in BOOLEAN : screenRecordDoneMsg(success)
    [] f = "connect"    -> \E success \in BOOLEAN : wifiConnectDoneMsg(success)
    [] f = "disconnect" -> \E success \in BOOLEAN : wifiDisconnectDoneMsg(success)
    [] f = "pair"       -> \E success \in BOOLEAN : wifiPairDoneMsg(success)

\* this step is Update receiving any typed message of operation f
OutcomeMsgOf(f) ==
  CompletionMsgOf(f) \/ (f = "recording" /\ recordingStartedMsg(TRUE))

SetsExactly(f) == Flags' = [Flags EXCEPT ![f] = TRUE]
ClearsExactly(f) == Flags' = [Flags EXCEPT ![f] = FALSE]

\* C1: a set activity flag always has its operation still running: no flag
\* stays set once the wrapped operation has returned
C1_FlagSetOnlyWhileOperationRuns ==
  \A f \in FlagNames : Flags[f] => OperationRunning(f)

\* C2 (as stated): a dispatch sets exactly the flag of its operation, and
\* every outcome message of an operation, recording-started included,
\* clears exactly that flag
C2_EveryOutcomeClearsItsFlag ==
  [][\A f \in FlagNames :
       /\ DispatchesOperation(f) => SetsExactly(f) /\ Flags'[f]
       /\ OutcomeMsgOf(f) => ClearsExactly(f) /\ ~Flags'[f]]_vars

\* C2: a dispatch sets exactly the flag of its operation; a done message, or
\* a failed recording-started, clears exactly that flag; a successful
\* recording-started changes no flag (the recording is running)
C2_DispatchSetsAndCompletionClearsOwnFlag ==
  [][/\ \A f \in FlagNames :
          /\ DispatchesOperation(f) => SetsExactly(f) /\ Flags'[f]
          /\ CompletionMsgOf(f) => ClearsExactly(f) /\ ~Flags'[f]
     /\ recordingStartedMsg(TRUE) => Flags' = Flags]_vars

\* a disconnect outcome has been logged while the recording goes on
C2_Witness ==
  /\ recordingScreen
  /\ activeRecording = Recording
  /\ ~disconnectingWiFi
  /\ Len(logHistory) = 1
  /\ logHistory[1].Message \in {<<"WiFi device disconnected">>,
                                <<"WiFi disconnect failed: ", ErrorText>>}

\* C3: a set activity flag becomes unset only in the step that handles a
\* message of the operation owning it, never in a key handler
C3_FlagClearedOnlyByOwnCompletion ==
  [][\A f \in FlagNames : (Flags[f] /\ ~Flags'[f]) => OutcomeMsgOf(f)]_vars

(***************************************************************************)
(* Cancel in the three sub-modes.                                          *)
(***************************************************************************)
SubModes == {ModeDeviceSelect, ModeEmulatorSelect, ModeTextInput}
SetsNoFlag == \A f \in FlagNames : Flags'[f] => Flags[f]

\* C4 (as stated): from DeviceSelect, EmulatorSelect or TextInput an Esc
\* keystroke moves the mode to Menu, sets no flag and dispatches nothing,
\* whatever is in flight
C4_EscReturnsToMenu ==
  [][(KeyEsc /\ mode \in SubModes) =>
       (mode' = ModeMenu /\ SetsNoFlag /\ ~Dispatches)]_vars

\* C4: with the recording flag unset, Esc in DeviceSelect, EmulatorSelect or
\* TextInput moves the mode to Menu, sets no flag and dispatches nothing,
\* also with other operations in flight; with the recording flag set the
\* key stops the recording instead and the mode stays
C4_EscReturnsToMenuUnlessRecording ==
  [][(KeyEsc /\ mode \in SubModes) =>
       IF recordingScreen
       THEN mode' = mode /\ SetsNoFlag
       ELSE mode' = ModeMenu /\ Flags' = Flags /\ tasks' = tasks]_vars

\* the pairing prompt was cancelled while a WiFi connect was in flight
C4_Witness ==
  /\ mode = ModeMenu
  /\ pairingAddress # <<>>
  /\ textInputAction = ""
  /\ ~pairingWiFi
  /\ connectingWiFi
  /\ OperationRunning("connect")

(***************************************************************************)
(* Output capture sessions of the goroutines in flight.                    *)
(***************************************************************************)
CapturingTasks == {t \in BagToSet(tasks) : t.pc = "capturing"}

\* C5: at most one goroutine is between OutputCapture.Start and Stop
C5_AtMostOneCaptureActive ==
  \A t1, t2 \in CapturingTasks : t1 = t2 /\ CopiesIn(t1, tasks) = 1

(***************************************************************************)
(* Log entries of the outcome messages.                                    *)
(***************************************************************************)
LastEntry(history) == history[Len(history)]

\* the step appends one entry of the given severity (with the eviction of
\* addLogEntry)
AppendsOneEntry(logType) ==
  /\ Len(logHistory') > 0
  /\ LastEntry(logHistory').Type = logType
  /\ logHistory' = addLogEntry(logHistory, LastEntry(logHistory').Message, logType)

Carries(entry, piece) == \E i \in 1..Len(entry.Message) : entry.Message[i] = piece

Severity(success) == IF success THEN LogTypeSuccess ELSE LogTypeError

\* the messages with a Success field
DoneMsg(success) ==
  \/ screenshotDoneMsg(success)
  \/ dayNightScreenshotDoneMsg(success)
  \/ screenRecordDoneMsg(success)
  \/ settingChangedMsg(success)
  \/ wifiConnectDoneMsg(success)
  \/ wifiDisconnectDoneMsg(success)
  \/ wifiPairDoneMsg(success)
  \/ emulatorConfigureDoneMsg(success)

\* C6 (as stated): handling any outcome message, recording-started
\* included, appends exactly one log entry, of the severity of the outcome
C6_EveryOutcomeAppendsOneEntry ==
  [][\A success \in BOOLEAN :
       (DoneMsg(success) \/ recordingStartedMsg(success))
         => AppendsOneEntry(Severity(success))]_vars

\* C6: handling a done message appends exactly one log entry, of the
\* severity of the outcome; recording-started appends none, its failure is
\* kept in the error field
C6_DoneMsgAppendsOneEntry ==
  [][\A success \in BOOLEAN :
       /\ DoneMsg(success) => AppendsOneEntry(Severity(success))
       /\ recordingStartedMsg(success) =>
            /\ logHistory' = logHistory
            /\ ~success => err' # ""]_vars

\* two outcomes, one of each severity, were logged one after the other
C6_Witness ==
  /\ Len(logHistory) = 2
  /\ logHistory[1].Type # logHistory[2].Type
  /\ ~takingScreenshot
  /\ ~takingDayNight
  /\ session = "media"

Min(a, b) == IF a < b THEN a ELSE b
LastEntries(entries, n) == SubSeq(entries, Len(entries) - n + 1, Len(entries))

\* C8: after any sequence of addLogEntry calls the history holds the last
\* min(5, k) of the k entries inserted, in insertion order
C8_HistoryIsLastFiveInserted ==
  /\ Len(logHistory) <= maxLogEntries
  /\ logHistory = LastEntries(inserted, Min(maxLogEntries, Len(inserted)))

\* a sixth entry went into a full history and evicted the first
C8_Witness ==
  /\ Len(inserted) = maxLogEntries + 1
  /\ inserted[1] # inserted[2]
  /\ Len(logHistory) = maxLogEntries
  /\ logHistory[1] = inserted[2]

\* C9 (as stated): the history changes only by an append with FIFO
\* eviction, never because an operation is dispatched
C9_EntriesLeaveOnlyByEviction ==
  [][logHistory' # logHistory =>
       \E logType \in {LogTypeSuccess, LogTypeError} : AppendsOneEntry(logType)]_vars

\* C9: the history changes only by an append with FIFO eviction or by the
\* clearLogs of a handler that dispatches an operation, which empties it
C9_EntriesLeaveByEvictionOrClearAtDispatch ==
  [][logHistory' # logHistory =>
       \/ \E logType \in {LogTypeSuccess, LogTypeError} : AppendsOneEntry(logType)
       \/ logHistory' = <<>> /\ Dispatches]_vars

\* the history is full: the next entry evicts the oldest
C9_Witness ==
  /\ Len(logHistory) = maxLogEntries
  /\ session = "settings"
  /\ logHistory[1].Type # logHistory[maxLogEntries].Type

(***************************************************************************)
(* The menu selection.                                                     *)
(***************************************************************************)
\* C10: the selection index is within the filtered list, and 0 when the
\* list is empty
C10_SelectionIndexInBounds ==
  IF Len(filteredCommands) > 0
  THEN 0 <= selectedCommandIndex /\ selectedCommandIndex < Len(filteredCommands)
  ELSE selectedCommandIndex = 0

\* the cursor is on the last entry of a filtered list
C10_Witness ==
  /\ searchMode
  /\ Len(filteredCommands) < Len(GetTUICommands)
  /\ selectedCommandIndex > 0
  /\ selectedCommandIndex = Len(filteredCommands) - 1


\* ---------------------------------------------------------------------------
\* Selection indices of the device and emulator lists

ValidIndex(index, list) ==
  IF Len(list) = 0 THEN index = 0 ELSE index \in 0..(Len(list) - 1)

ResetWhenOutOfBounds(index, list) ==
  IF Len(list) <= index THEN 0 ELSE index

\* C11: the selected device (emulator) index is always a valid index of the
\* current list, or 0 when the list is empty; a devices-loaded (AVDs-loaded)
\* message resets it to 0 when the new list is not longer than the index, and
\* the up and down keys keep it inside the list.
C11_SelectionIndexValidAfterLoadAndKeys ==
  /\ ValidIndex(selectedDevice, devices)
  /\ ValidIndex(selectedEmulator, avds)
  /\ [][/\ ValidIndex(selectedDevice', devices')
        /\ ValidIndex(selectedEmulator', avds')
        /\ devicesLoadedMsg =>
             selectedDevice' = ResetWhenOutOfBounds(selectedDevice, devices')
        /\ avdsLoadedMsg =>
             selectedEmulator' = ResetWhenOutOfBounds(selectedEmulator, avds')
        /\ (KeyDeviceSelectUp \/ KeyDeviceSelectDown) =>
             /\ devices' = devices
             /\ selectedDevice' \in {selectedDevice - 1, selectedDevice, selectedDevice + 1}
        /\ (KeyEmulatorSelectUp \/ KeyEmulatorSelectDown) =>
             /\ avds' = avds
             /\ selectedEmulator' \in {selectedEmulator - 1, selectedEmulator,
                                       selectedEmulator + 1}]_vars

\* the down key moved the selection to the last of two loaded devices while a
\* reload of the device list is in flight
C11_Witness ==
  /\ mode = ModeDeviceSelect
  /\ Len(devices) = MaxDevices
  /\ selectedDevice = Len(devices) - 1
  /\ selectedDevice > 0
  /\ TasksAt("LoadDevicesCmd", "scheduled") # {}

\* ---------------------------------------------------------------------------
\* The filtered command list

\* C12: in every reachable state the filtered command list is the result of
\* the matcher on the current search filter and search mode, and every step
\* that changes the search filter or the search mode recomputes the list in
\* that same step.
C12_FilteredCommandsFollowSearch ==
  /\ filteredCommands = filterCommands(searchMode, searchFilter)
  /\ [][/\ filteredCommands' = filterCommands(searchMode', searchFilter')
        /\ (searchFilter' # searchFilter \/ searchMode' # searchMode) => Update]_vars

\* a typed filter that narrows the catalog to some of its entries
C12_Witness ==
  /\ searchMode
  /\ Len(searchFilter) = 2
  /\ Len(filteredCommands) > 0
  /\ Len(filteredCommands) < Len(CatalogCommands)

\* ---------------------------------------------------------------------------
\* The text-input action and the stored pairing address

\* C13: the text-input action and the stored pairing address are non-empty
\* only while the mode is text-input, and both are cleared by every submit
\* that leaves text-input mode and by every cancel.
C13_TextInputStateOnlyInTextInput ==
  /\ mode # ModeTextInput => (textInputAction = "" /\ pairingAddress = <<>>)
  /\ [][(KeyTextInputCancel \/ (KeyTextInputSubmit /\ mode' # ModeTextInput)) =>
          (textInputAction' = "" /\ pairingAddress' = <<>>)]_vars

\* ---------------------------------------------------------------------------
\* Submitting a malformed setting value

\* the text-input buffer holds a value the handler of the open setting rejects
MalformedSubmit ==
  /\ KeyTextInputSubmit
  /\ textInputAction \in SettingTypes
  /\ ~ValidateInput(textInputAction, textInput)

MalformedChanges ==
  {t \in TasksAt("ChangeSettingCmd", "scheduled") : ~ValidateInput(t.arg, t.value)}

\* this step delivers the setting-changed message of the command t
SettingChangedOf(t) ==
  /\ \E success \in BOOLEAN : settingChangedMsg(success)
  /\ CopiesIn(t, tasks') < CopiesIn(t, tasks)

\* C14 (as stated): submitting a malformed setting value appends an error
\* entry in the submit step itself, launches no asynchronous operation and
\* sets no activity flag.
C14_MalformedValueCaughtAtSubmit ==
  [][MalformedSubmit =>
       /\ AppendsOneEntry(LogTypeError)
       /\ ~Dispatches
       /\ Flags' = Flags]_vars

\* C14 (amended): the submit step of a malformed setting value sets no
\* activity flag, appends nothing to the log and dispatches the
\* change-setting command with the value; the message that command delivers
\* appends exactly one error entry naming the value, dispatches nothing and
\* sets no flag.
C14_MalformedValueCaughtByCommand ==
  [][/\ MalformedSubmit =>
          /\ Flags' = Flags
          /\ logHistory' = logHistory
          /\ tasks' = Dispatch(tasks, TaskWithValue("ChangeSettingCmd",
                                                    textInputAction, textInput))
     /\ \A t \in MalformedChanges :
          SettingChangedOf(t) =>
            /\ AppendsOneEntry(LogTypeError)
            /\ LastEntry(logHistory').Message =
                 <<"Setting change failed: ", t.arg>> \o t.value
            /\ ~Dispatches
            /\ Flags' = Flags]_vars

\* the error entry of a rejected empty DPI value is in the log and nothing
\* is in flight
C14_Witness ==
  /\ mode = ModeTextInput
  /\ textInputAction = "dpi"
  /\ Len(logHistory) > 0
  /\ LastEntry(logHistory) = [Message |-> <<"Setting change failed: ", "dpi">>,
                              Type |-> LogTypeError]
  /\ tasks = EmptyBag

(***************************************************************************)
(* The matcher on typed queries: the search keys of the menu alone, with   *)
(* a wider alphabet and longer queries than the sessions above.            *)
(***************************************************************************)
MaxQueryLen == 3

\* a letter of many entries, its capital, a letter of some entries, a
\* letter of no entry, the word separator and the search key
QueryChars == {"s", "S", "e", "q", "-", "/"}

InitMatch ==
  /\ NewModel
  /\ session = "match"
  /\ inserted = <<>>
  /\ NoCapture
  /\ NoTracking
  /\ NoRuns

\* handleKeyPress in the menu for a one-character key
SearchType(char) ==
  /\ mode = ModeMenu
  /\ (char = "/" /\ ~searchMode) \/ searchMode
  /\ searchMode => Len(searchFilter) <= MaxQueryLen
  /\ refilter(TRUE, IF searchMode THEN Append(searchFilter, char) ELSE <<"/">>)
  /\ selectedCommandIndex' = 0
  /\ UNCHANGED <<mode, err, logHistory, textVars, deviceVars, mediaVars, wifiVars,
                 miscVars, tasks>>

NextMatch ==
  \/ \E char \in QueryChars : SearchType(char)
  \/ KeyMenuBackspace

SpecMatch == InitMatch /\ [][NextMatch]_vars

\* the query the matcher scores: the filter without the search key
Query == ToLower(TrimPrefixSlash(searchFilter))

InResult(command) == \E i \in 1..Len(filteredCommands) : filteredCommands[i] = command

\* q can be embedded in str from position from on, keeping the order
RECURSIVE Embeds(_, _, _)
Embeds(q, str, from) ==
  \/ q = <<>>
  \/ \E i \in from..Len(str) : str[i] = Head(q) /\ Embeds(Tail(q), str, i + 1)

IsSubsequence(q, str) == Embeds(q, str, 1)

HasRune(str, c) == \E i \in 1..Len(str) : str[i] = c

\* C19: for the empty query (no search, or nothing typed after the search
\* key) the matcher returns the full catalog in its original order.
C19_EmptyQueryReturnsCatalog ==
  (~searchMode \/ TrimPrefixSlash(searchFilter) = <<>>) =>
    /\ filteredCommands = CatalogCommands
    /\ filteredCommands = [i \in 1..Len(GetTUICommands) |-> GetTUICommands[i].Command]

\* the search key alone has been typed
C19_Witness ==
  /\ searchMode
  /\ searchFilter = <<"/">>
  /\ filteredCommands = CatalogCommands

\* C20: for a non-empty query q an entry is in the result exactly when the
\* lower-cased q is a subsequence of its lower-cased name or description; a
\* query with a character in neither excludes the entry, and every entry in
\* the result has a score above 0.
C20_ResultIsSubsequenceMatches ==
  (searchMode /\ Query # <<>>) =>
    \A k \in 1..Len(getAvailableCommands) :
      /\ InResult(getAvailableCommands[k].Command) <=>
           \/ IsSubsequence(Query, ToLower(getAvailableCommands[k].Name))
           \/ IsSubsequence(Query, ToLower(getAvailableCommands[k].Description))
      /\ (\E j \in 1..Len(Query) :
            /\ ~HasRune(ToLower(getAvailableCommands[k].Name), Query[j])
            /\ ~HasRune(ToLower(getAvailableCommands[k].Description), Query[j]))
           => ~InResult(getAvailableCommands[k].Command)
      /\ InResult(getAvailableCommands[k].Command) =>
           fuzzyMatchScore(getAvailableCommands[k], Query) > 0

\* the query "se" typed with a capital: entries with s before e are in the
\* result, the DPI entry is not
C20_Witness ==
  /\ searchFilter = <<"/", "S", "e">>
  /\ InResult("screenshot")
  /\ InResult("font-size")
  /\ ~InResult("dpi")
  /\ Len(filteredCommands) < Len(CatalogCommands)

(***************************************************************************)
(* Output capture in detail (package capture): one OutputCapture, its two  *)
(* pipes and reader goroutines, and one goroutine that uses it, either     *)
(* through CaptureFunction or by calling Start, Stop and writing to the    *)
(* process streams in any order.  A line is its text; a pipe holds the     *)
(* lines written and not yet read.                                         *)
(***************************************************************************)
MaxLines == 3
MaxErrLines == 1
MaxCalls == 4
PipeCapacity == 2

\* make(chan string, 100)
channelCapacity == 100

\* a line longer than bufio.MaxScanTokenSize, the longest token a
\* bufio.NewScanner accepts
TooLongLine == "a line of more than 65536 bytes"

\* the error of os.Pipe
PipeError == "too many open files"

Writer == [stdout |-> "stdoutWriter", stderr |-> "stderrWriter"]

OpenPipe == [buf |-> <<>>, writerOpen |-> TRUE, readerOpen |-> TRUE]

SeqsUpTo(S, n) == UNION {[1..k -> S] : k \in 0..n}

Numbered(n) == [i \in 1..n |-> ToString(i)]

\* what fn writes to each stream, and what it returns
ShortScripts ==
  [stdout : SeqsUpTo({"", "1", "2", TooLongLine}, MaxLines),
   stderr : SeqsUpTo({"", "warning"}, MaxErrLines),
   result : {"nil", ErrorText}]

\* scripts that fill the channel of the stdout lines
FillingScripts ==
  [stdout : {Numbered(n) : n \in (channelCapacity - 1)..(channelCapacity + 1)},
   stderr : {<<>>},
   result : {"nil"}]

Scripts == ShortScripts \cup FillingScripts

controllerVars ==
  <<mode, err, logHistory, searchVars, textVars, deviceVars, mediaVars, wifiVars,
    loading, selectedDeviceForAction, session, inserted, tasks, trackVars,
    runVars>>

InitCapture ==
  /\ NewModel
  /\ session = "capture"
  /\ inserted = <<>>
  /\ NoTracking
  /\ NoRuns
  /\ os = Terminal
  /\ oc = NewOutputCapture
  /\ pipes = NoPipes
  /\ readers = NoReaders
  /\ \/ \E script \in Scripts : caller = Caller("function", "start", script)
     \/ caller = Caller("api", "ready", NoScript)

\* a faulty Start: no check of oc.capturing
StartWithoutGuard(outcome) ==
  /\ oc' = [oc EXCEPT !.originalStdout = os.stdout,
                      !.originalStderr = os.stderr,
                      !.wg = IF outcome = "ok" THEN @ + 2 ELSE @,
                      !.capturing = IF outcome = "ok" THEN TRUE ELSE @]
  /\ IF outcome = "ok"
     THEN /\ os' = Writer
          /\ pipes' = [stdout |-> OpenPipe, stderr |-> OpenPipe]
          /\ readers' = [stdout |-> "scanning", stderr |-> "scanning"]
     ELSE UNCHANGED <<os, pipes, readers>>

\* OutputCapture.Start; outcome is "ok" or the failure of an os.Pipe call
Start(outcome) ==
  IF oc.capturing
  THEN UNCHANGED <<os, oc, pipes, readers>>
  ELSE /\ oc' = [oc EXCEPT !.originalStdout = os.stdout,
                           !.originalStderr = os.stderr,
                           !.wg = IF outcome = "ok" THEN @ + 2 ELSE @,
                           !.capturing = (outcome = "ok")]
       /\ IF outcome = "ok"
          THEN /\ os' = Writer
               /\ pipes' = [stdout |-> OpenPipe, stderr |-> OpenPipe]
               /\ readers' = [stdout |-> "scanning", stderr |-> "scanning"]
          ELSE UNCHANGED <<os, pipes, readers>>

\* the error Start returns
StartResult(outcome) ==
  IF oc.capturing \/ outcome = "ok" THEN "nil" ELSE PipeError

StartOutcomes == {"ok", "pipe failed"}

\* OutputCapture.Stop up to oc.wg.Wait(): the streams are restored and the
\* write ends closed
StopBegin ==
  IF ~oc.capturing
  THEN UNCHANGED <<os, oc, pipes, readers>>
  ELSE /\ os' = [stdout |-> oc.originalStdout, stderr |-> oc.originalStderr]
       /\ pipes' = [s \in Streams |-> [pipes[s] EXCEPT !.writerOpen = FALSE]]
       /\ UNCHANGED <<oc, readers>>

\* OutputCapture.Stop after oc.wg.Wait() has returned
StopEnd ==
  /\ oc.wg = 0
  /\ pipes' = [s \in Streams |-> [pipes[s] EXCEPT !.readerOpen = FALSE]]
  /\ oc' = [oc EXCEPT !.capturing = FALSE]
  /\ UNCHANGED <<os, readers>>

\* a write of one line to os.Stdout or os.Stderr; a write to a full pipe blocks
Write(s, line) ==
  IF os[s] = Terminal[s]
  THEN UNCHANGED pipes
  ELSE /\ \E p \in Streams :
            /\ os[s] = Writer[p]
            /\ pipes[p].writerOpen
            /\ Len(pipes[p].buf) < PipeCapacity
            /\ pipes' = [pipes EXCEPT ![p].buf = Append(@, line)]

ChannelOf(s) == IF s = "stdout" THEN oc.outputCh ELSE oc.errorCh

\* "select { case ch <- line: default: }"
Send(s, line) ==
  IF Len(ChannelOf(s)) < channelCapacity
  THEN IF s = "stdout" THEN [oc EXCEPT !.outputCh = Append(@, line)]
       ELSE [oc EXCEPT !.errorCh = Append(@, line)]
  ELSE oc

\* readOutput: scanner.Scan() returns a line.  On a line too long for the
\* scanner Scan returns false: the goroutine ends and the rest of the line
\* stays in the pipe.
ReadLine(s) ==
  /\ readers[s] = "scanning"
  /\ pipes[s].buf # <<>>
  /\ IF Head(pipes[s].buf) = TooLongLine
     THEN /\ readers' = [readers EXCEPT ![s] = "done"]
          /\ oc' = [oc EXCEPT !.wg = @ - 1]
          /\ UNCHANGED pipes
     ELSE /\ pipes' = [pipes EXCEPT ![s].buf = Tail(@)]
          /\ oc' = IF Head(pipes[s].buf) # "" THEN Send(s, Head(pipes[s].buf)) ELSE oc
          /\ UNCHANGED readers
  /\ UNCHANGED <<os, caller, controllerVars>>

\* readOutput: scanner.Scan() returns false at the end of the pipe
ReadEOF(s) ==
  /\ readers[s] = "scanning"
  /\ pipes[s].buf = <<>>
  /\ ~pipes[s].writerOpen
  /\ readers' = [readers EXCEPT ![s] = "done"]
  /\ oc' = [oc EXCEPT !.wg = @ - 1]
  /\ UNCHANGED <<os, pipes, caller, controllerVars>>

\* CaptureFunction: capture.Start() and the return on its error
CaptureFunctionStart(outcome) ==
  /\ caller.mode = "function"
  /\ caller.pc = "start"
  /\ Start(outcome)
  /\ caller' = IF StartResult(outcome) = "nil"
               THEN [caller EXCEPT !.pc = "fn"]
               ELSE [caller EXCEPT !.pc = "returned", !.err = StartResult(outcome)]
  /\ UNCHANGED controllerVars

\* fn writes its next line to a stream
FnWrite(s) ==
  /\ caller.mode = "function"
  /\ caller.pc = "fn"
  /\ caller.written[s] < Len(caller.script[s])
  /\ Write(s, caller.script[s][caller.written[s] + 1])
  /\ caller' = [caller EXCEPT !.written[s] = @ + 1]
  /\ UNCHANGED <<os, oc, readers, controllerVars>>

\* "fnErr := fn()"
FnReturn ==
  /\ caller.mode = "function"
  /\ caller.pc = "fn"
  /\ \A s \in Streams : caller.written[s] = Len(caller.script[s])
  /\ caller' = [caller EXCEPT !.pc = "stop", !.fnErr = caller.script.result]
  /\ UNCHANGED <<os, oc, pipes, readers, controllerVars>>

\* CaptureFunction: capture.Stop() is called
CaptureFunctionStop ==
  /\ caller.mode = "function"
  /\ caller.pc = "stop"
  /\ StopBegin
  /\ caller' = [caller EXCEPT !.pc = IF oc.capturing THEN "wait" ELSE "get"]
  /\ UNCHANGED controllerVars

\* Stop returns nil to whoever called it
StopReturn ==
  /\ caller.pc = "wait"
  /\ StopEnd
  /\ caller' = [caller EXCEPT !.pc = IF caller.mode = "function" THEN "get"
                                     ELSE "ready",
                              !.err = "nil"]
  /\ UNCHANGED controllerVars

\* a faulty end of CaptureFunction: the error of Stop is returned
CaptureFunctionReturnStopErr ==
  /\ caller.mode = "function"
  /\ caller.pc = "get"
  /\ oc' = [oc EXCEPT !.outputCh = <<>>, !.errorCh = <<>>]
  /\ caller' = [caller EXCEPT !.pc = "returned",
                              !.output = oc.outputCh \o oc.errorCh,
                              !.err = "nil"]
  /\ UNCHANGED <<os, pipes, readers, controllerVars>>

\* CaptureFunction: capture.GetAllOutput() and "return output, fnErr"
CaptureFunctionReturn ==
  /\ caller.mode = "function"
  /\ caller.pc = "get"
  /\ oc' = [oc EXCEPT !.outputCh = <<>>, !.errorCh = <<>>]
  /\ caller' = [caller EXCEPT !.pc = "returned",
                              !.output = oc.outputCh \o oc.errorCh,
                              !.err = caller.fnErr]
  /\ UNCHANGED <<os, pipes, readers, controllerVars>>

\* a goroutine that calls the methods itself
Called(call) ==
  [caller EXCEPT !.calls = @ + 1,
                 !.last = [call |-> call, capturing |-> oc.capturing]]

CanCall ==
  /\ caller.mode = "api"
  /\ caller.pc = "ready"
  /\ caller.calls < MaxCalls

ApiStart(outcome) ==
  /\ CanCall
  /\ Start(outcome)
  /\ caller' = [Called("Start") EXCEPT !.err = StartResult(outcome)]
  /\ UNCHANGED controllerVars

ApiStop ==
  /\ CanCall
  /\ StopBegin
  /\ caller' = [Called("Stop") EXCEPT !.pc = IF oc.capturing THEN "wait" ELSE "ready",
                                      !.err = "nil"]
  /\ UNCHANGED controllerVars

ApiWrite(s, line) ==
  /\ CanCall
  /\ Write(s, line)
  /\ caller' = Called("Write")
  /\ UNCHANGED <<os, oc, readers, controllerVars>>

NextCapture ==
  \/ \E outcome \in StartOutcomes : CaptureFunctionStart(outcome)
  \/ \E s \in Streams : FnWrite(s)
  \/ FnReturn
  \/ CaptureFunctionStop
  \/ StopReturn
  \/ CaptureFunctionReturn
  \/ \E s \in Streams : ReadLine(s)
  \/ \E s \in Streams : ReadEOF(s)
  \/ \E outcome \in StartOutcomes : ApiStart(outcome)
  \/ ApiStop
  \/ \E s \in Streams, line \in {"", "1"} : ApiWrite(s, line)

SpecCapture == InitCapture /\ [][NextCapture]_vars

\* every goroutine that can take a step takes one
FairSpecCapture == SpecCapture /\ WF_vars(NextCapture)

\* ---------------------------------------------------------------------------
\* Properties of the capture

captureState == <<os, oc, pipes, readers>>

\* C15: Start while the capture is capturing returns nil and changes neither
\* the process streams, the saved originals, the pipes nor the readers; Stop
\* while it is not capturing (never started, or stopped already) returns nil
\* at once and leaves the process streams and the capture unchanged.
C15_StartAndStopAreIdempotent ==
  [][/\ \A outcome \in StartOutcomes :
          (ApiStart(outcome) /\ oc.capturing) =>
            /\ caller'.err = "nil"
            /\ UNCHANGED captureState
     /\ (ApiStop /\ ~oc.capturing) =>
          /\ caller'.err = "nil"
          /\ caller'.pc = "ready"
          /\ UNCHANGED captureState]_vars

\* Start has just been called on a capture that was capturing, and the
\* streams still go to its pipes
C15_Witness ==
  /\ caller.last = [call |-> "Start", capturing |-> TRUE]
  /\ oc.capturing
  /\ os = Writer
  /\ oc.originalStdout = Terminal.stdout
  /\ oc.wg = 2

\* the lines readOutput passes on
RECURSIVE NonEmpty(_)
NonEmpty(lines) ==
  IF lines = <<>> THEN <<>>
  ELSE IF Head(lines) = "" THEN NonEmpty(Tail(lines))
       ELSE <<Head(lines)>> \o NonEmpty(Tail(lines))

\* CaptureFunction has returned after fn ran
Returned == caller.mode = "function" /\ caller.pc = "returned" /\ caller.fnErr # "not called"

FewLines ==
  \A s \in Streams : Len(NonEmpty(caller.script[s])) < channelCapacity

\* C16: when fn writes fewer than 100 non-empty lines to each stream and
\* returns nil, CaptureFunction returns exactly the non-empty lines fn wrote,
\* each stream in its order, the stdout lines before the stderr lines, and a
\* nil error.
C16_ReturnsExactlyTheLinesWritten ==
  (Returned /\ caller.fnErr = "nil" /\ FewLines) =>
    /\ caller.output = NonEmpty(caller.script.stdout) \o NonEmpty(caller.script.stderr)
    /\ caller.err = "nil"

\* C17: when fn returns an error, CaptureFunction has stopped the capture and
\* restored the process streams, and returns the lines captured until then
\* together with that same error.
C17_ErrorOfFnIsReturned ==
  [][(CaptureFunctionReturn /\ caller.script.result # "nil") =>
       /\ caller'.err = caller.script.result
       /\ caller'.output = oc.outputCh \o oc.errorCh
       /\ ~oc.capturing
       /\ os = Terminal
       /\ os' = Terminal
       /\ \A s \in Streams : ~pipes[s].writerOpen /\ ~pipes[s].readerOpen]_vars

\* fn wrote two lines to stdout and one to stderr and failed; the three
\* lines came back with the error of fn
C17_Witness ==
  /\ caller.mode = "function"
  /\ caller.pc = "returned"
  /\ caller.script.result = ErrorText
  /\ caller.err = ErrorText
  /\ caller.output = <<"1", "2", "warning">>
  /\ os = Terminal

First(lines, n) == SubSeq(lines, 1, IF Len(lines) < n THEN Len(lines) ELSE n)

\* C18: a reader that finds its channel full drops the line and goes on, so
\* it can always take the next line; whatever fn writes, CaptureFunction
\* returns, with the first 100 non-empty lines of each stream at most.
C18_ReadersNeverBlockAndCaptureTerminates ==
  /\ [][\A s \in Streams :
          (ReadLine(s) /\ Len(ChannelOf(s)) = channelCapacity) =>
            ChannelOf(s)' = ChannelOf(s)]_vars
  /\ [](Returned =>
          caller.output = First(NonEmpty(caller.script.stdout), channelCapacity)
                          \o First(NonEmpty(caller.script.stderr), channelCapacity))
  /\ (caller.mode = "function" ~> caller.pc = "returned")

\* ---------------------------------------------------------------------------
\* Order and scores of the matcher's result

\* the place of a command in the catalog
CatalogIndex(command) ==
  CHOOSE k \in 1..Len(getAvailableCommands) : getAvailableCommands[k].Command = command

\* the overall score of a command of the result for the current query
ResultScore(i) ==
  fuzzyMatchScore(getAvailableCommands[CatalogIndex(filteredCommands[i])], Query)

\* C21: the result of the matcher is ordered by overall score, highest first,
\* and two entries of equal score keep the order they have in the catalog.
C21_ResultSortedByScoreTiesInCatalogOrder ==
  (searchMode /\ Query # <<>>) =>
    \A i, j \in 1..Len(filteredCommands) :
      i < j =>
        /\ ResultScore(i) >= ResultScore(j)
        /\ ResultScore(i) = ResultScore(j) =>
             CatalogIndex(filteredCommands[i]) < CatalogIndex(filteredCommands[j])

\* a result with two entries of equal score and one of a lower score
C21_Witness ==
  /\ searchMode
  /\ Query # <<>>
  /\ \E i, j, k \in 1..Len(filteredCommands) :
       /\ i < j
       /\ j < k
       /\ ResultScore(i) = ResultScore(j)
       /\ ResultScore(j) > ResultScore(k)

\* the first place of c in str from place from on (1-based)
FirstAt(str, c, from) ==
  CHOOSE i \in from..Len(str) : str[i] = c /\ \A j \in from..(i - 1) : str[j] # c

\* the 0-based positions of the leftmost embedding of q in str
RECURSIVE LeftmostPositions(_, _, _)
LeftmostPositions(str, q, from) ==
  IF q = <<>> THEN <<>>
  ELSE <<FirstAt(str, Head(q), from) - 1>>
       \o LeftmostPositions(str, Tail(q), FirstAt(str, Head(q), from) + 1)

\* the bonus of the k-th match: 5 more than that of the match before when the
\* rune before the match is the filter rune before, 0 otherwise
RECURSIVE RunBonus(_, _, _, _)
RunBonus(str, q, pos, k) ==
  IF k > 1 /\ pos[k] > 0 /\ str[pos[k]] = q[k - 1]
  THEN RunBonus(str, q, pos, k - 1) + 5
  ELSE 0

consecutiveRunBonus(str, q, pos) ==
  SumSeq([k \in 1..Len(pos) |-> RunBonus(str, q, pos, k)])

wordStartBonus(str, pos) ==
  8 * Cardinality({k \in 1..Len(pos) :
                     pos[k] = 0 \/ (pos[k] > 0 /\ str[pos[k]] \in {" ", "-"})})

earlyPositionBonus(str, pos) ==
  ClampToZero(50 - (((SumSeq(pos) \div Len(pos)) * 50) \div Len(str)))

\* the compactness bonus as the code has it: nothing for a single match, and
\* a span that counts both ends
SpanBonus(str, pos) ==
  IF Len(pos) > 1
  THEN ClampToZero(25 - (((pos[Len(pos)] - pos[1] + 1) * 25) \div Len(str)))
  ELSE 0

\* the compactness bonus with the span as the distance from the first to the
\* last match
DistanceBonus(str, pos) ==
  ClampToZero(25 - (((pos[Len(pos)] - pos[1]) * 25) \div Len(str)))

FieldScore(str, q, pos) ==
  10 * Len(pos) + consecutiveRunBonus(str, q, pos) + wordStartBonus(str, pos)
  + earlyPositionBonus(str, pos)

Max(a, b) == IF a > b THEN a ELSE b

\* the two fields of every entry, lower-cased
Fields ==
  {ToLower(getAvailableCommands[k].Name) : k \in 1..Len(getAvailableCommands)}
  \cup {ToLower(getAvailableCommands[k].Description) : k \in 1..Len(getAvailableCommands)}

OverallScoreIsBoostedMax ==
  \A k \in 1..Len(getAvailableCommands) :
    fuzzyMatchScore(getAvailableCommands[k], Query) =
      Max(fuzzyMatchStringScore(ToLower(getAvailableCommands[k].Name), Query),
          fuzzyMatchStringScore(ToLower(getAvailableCommands[k].Description), Query))
      + (IF IsSubsequence(Query, ToLower(getAvailableCommands[k].Name)) THEN 50 ELSE 0)

MaxLineLen == 3
eventCapacity == 10

Tab == "\t"
Whitespace == {" ", Tab}
Tokens ==
  {" ", Tab, "emulator-5554", "device", "offline", "disconnected",
   "unauthorized"}

\* strings.TrimSpace
RECURSIVE TrimLeft(_)
TrimLeft(str) ==
  IF str # <<>> /\ Head(str) \in Whitespace THEN TrimLeft(Tail(str)) ELSE str

RECURSIVE TrimRight(_)
TrimRight(str) ==
  IF str # <<>> /\ str[Len(str)] \in Whitespace
    THEN TrimRight(SubSeq(str, 1, Len(str) - 1))
    ELSE str

TrimSpace(str) == TrimRight(TrimLeft(str))

\* strings.Split(line, "\t")
RECURSIVE SplitFrom(_, _)
SplitFrom(str, part) ==
  IF str = <<>> THEN <<part>>
  ELSE IF Head(str) = Tab THEN <<part>> \o SplitFrom(Tail(str), <<>>)
  ELSE SplitFrom(Tail(str), Append(part, Head(str)))

Split(str) == SplitFrom(str, <<>>)

DeviceChangeEvent(serial, status) == [Serial |-> serial, Status |-> status]

\* the statuses accepted by a mutated parser: every word after the tab
trackedStatusIsAnyWord(status) == Len(status) = 1

\* status == "device" || status == "offline" || status == "disconnected"
trackedStatus(status) ==
  status \in {<<"device">>, <<"offline">>, <<"disconnected">>}

\* the body of the scan loop up to the select: the event of a line, if any
parseFields(parts) ==
  IF /\ Len(parts) >= 2
     /\ TrimSpace(parts[1]) # <<>>
     /\ trackedStatus(TrimSpace(parts[2]))
    THEN <<DeviceChangeEvent(TrimSpace(parts[1]), TrimSpace(parts[2])[1])>>
    ELSE <<>>

parseLine(text) ==
  IF TrimSpace(text) = <<>> THEN <<>> ELSE parseFields(Split(TrimSpace(text)))

ValidLine == <<"emulator-5554", Tab, "device">>
TrackLines == SeqsUpTo(Tokens, MaxLineLen)
Flood == [i \in 1..(eventCapacity + 1) |-> ValidLine]
TrackInputs ==
  {<<first>> \o rest : first \in TrackLines, rest \in {<<>>, <<ValidLine>>}}
    \cup {Flood}

outsideTracking ==
  <<mode, err, logHistory, searchVars, textVars, deviceVars, mediaVars,
    wifiVars, loading, selectedDeviceForAction, session, inserted, tasks,
    captureVars, runVars>>

InitTrack ==
  /\ NewModel
  /\ session = "track"
  /\ inserted = <<>>
  /\ NoCapture
  /\ NoRuns
  /\ eventChan = NoEvents
  /\ process = NoProcess
  /\ \E input \in TrackInputs, end \in {"EOF", "error"} :
       scanner = Scanner(input, end)

\* close(eventChan)
Closed(ch) == [ch EXCEPT !.closed = TRUE, !.closes = ch.closes + 1]

\* StartDeviceTracking up to "go func()": the pipe or the start may fail
StartDeviceTracking(outcome) ==
  /\ scanner.pc = "not started"
  /\ IF outcome = "ok"
       THEN /\ process' = [process EXCEPT !.state = "running"]
            /\ scanner' = [scanner EXCEPT !.pc = "scanning"]
            /\ UNCHANGED eventChan
       ELSE /\ eventChan' = Closed(eventChan)
            /\ scanner' = [scanner EXCEPT !.pc = "failed"]
            /\ UNCHANGED process
  /\ UNCHANGED outsideTracking

HasRoom == Len(eventChan.buf) < eventCapacity

\* one iteration of "for scanner.Scan()": the select sends at once when the
\* channel has room and waits otherwise
ScanLine ==
  /\ scanner.pc = "scanning"
  /\ scanner.input # <<>>
  /\ IF parseLine(Head(scanner.input)) # <<>> /\ HasRoom
       THEN /\ eventChan' =
                 [eventChan EXCEPT
                    !.buf = eventChan.buf \o parseLine(Head(scanner.input))]
            /\ scanner' = [scanner EXCEPT !.input = Tail(scanner.input)]
       ELSE /\ scanner' =
                 [scanner EXCEPT
                    !.input = Tail(scanner.input),
                    !.pending = parseLine(Head(scanner.input)),
                    !.pc = IF parseLine(Head(scanner.input)) # <<>>
                             THEN "sending" ELSE "scanning"]
            /\ UNCHANGED eventChan
  /\ UNCHANGED <<process, outsideTracking>>

\* "case eventChan <- DeviceChangeEvent{...}" once the receiver made room
SendPending ==
  /\ scanner.pc = "sending"
  /\ HasRoom
  /\ eventChan' = [eventChan EXCEPT !.buf = eventChan.buf \o scanner.pending]
  /\ scanner' = [scanner EXCEPT !.pc = "scanning", !.pending = <<>>]
  /\ UNCHANGED <<process, outsideTracking>>

\* "case <-time.After(100 * time.Millisecond)": the event is skipped
SendTimeout ==
  /\ scanner.pc = "sending"
  /\ scanner' = [scanner EXCEPT !.pc = "scanning", !.pending = <<>>]
  /\ UNCHANGED <<eventChan, process, outsideTracking>>

\* scanner.Scan() returns false: the end of the output or a scan error
ScanEnd ==
  /\ scanner.pc = "scanning"
  /\ scanner.input = <<>>
  /\ scanner' = [scanner EXCEPT !.pc = "exiting"]
  /\ UNCHANGED <<eventChan, process, outsideTracking>>

\* a mutated exit that leaves the process running
ProcessKillSkipped ==
  /\ scanner.pc = "exiting"
  /\ scanner' = [scanner EXCEPT !.pc = "killed"]
  /\ UNCHANGED <<eventChan, process, outsideTracking>>

\* "defer cmd.Process.Kill()" runs first
ProcessKill ==
  /\ scanner.pc = "exiting"
  /\ process' = [state |-> "killed", kills |-> process.kills + 1]
  /\ scanner' = [scanner EXCEPT !.pc = "killed"]
  /\ UNCHANGED <<eventChan, outsideTracking>>

\* "defer close(eventChan)" runs last
CloseEvents ==
  /\ scanner.pc = "killed"
  /\ eventChan' = Closed(eventChan)
  /\ scanner' = [scanner EXCEPT !.pc = "done"]
  /\ UNCHANGED <<process, outsideTracking>>

\* the receiver of the returned channel takes an event
ReceiveEvent ==
  /\ eventChan.buf # <<>>
  /\ eventChan' = [eventChan EXCEPT !.buf = Tail(eventChan.buf)]
  /\ UNCHANGED <<process, scanner, outsideTracking>>

TrackingGoroutine ==
  \/ ScanLine
  \/ SendPending
  \/ SendTimeout
  \/ ScanEnd
  \/ ProcessKill
  \/ CloseEvents

NextTrack ==
  \/ \E outcome \in {"ok", "pipe error", "start error"} :
       StartDeviceTracking(outcome)
  \/ TrackingGoroutine
  \/ ReceiveEvent

SpecTrack == InitTrack /\ [][NextTrack]_vars

\* the goroutine runs; the receiver need not
FairSpecTrack == SpecTrack /\ WF_vars(TrackingGoroutine)

(***************************************************************************)
(* Properties of the device tracking.                                      *)
(***************************************************************************)
FirstTab(str) == CHOOSE i \in 1..Len(str) : str[i] = Tab /\ \A j \in 1..(i - 1) : str[j] # Tab

HasTab(str) == \E i \in 1..Len(str) : str[i] = Tab

\* the text between the first tab and the next one (or the end)
AfterFirstTab(str) == Split(SubSeq(str, FirstTab(str) + 1, Len(str)))[1]

Identifier(str) == TrimSpace(SubSeq(str, 1, FirstTab(str) - 1))

Status(str) == TrimSpace(AfterFirstTab(str))

Recognised(text) ==
  /\ HasTab(TrimSpace(text))
  /\ Identifier(TrimSpace(text)) # <<>>
  /\ Status(TrimSpace(text)) \in {<<"device">>, <<"offline">>, <<"disconnected">>}

\* the event the loop hands to the select in this step, if any
Offered == IF scanner'.pc = "sending" THEN scanner'.pending
           ELSE SubSeq(eventChan'.buf, Len(eventChan.buf) + 1, Len(eventChan'.buf))

\* C23: a line read by the watcher yields an event only if, once trimmed, it
\* has a tab, a non-empty identifier before it and one of the statuses
\* device, offline, disconnected after it; the event carries that identifier
\* and status; any other line yields no event, and the loop goes on.
C23_OnlyRecognisedLinesYieldEvents ==
  [][ScanLine =>
       /\ (Offered # <<>>) <=> Recognised(Head(scanner.input))
       /\ Offered # <<>> =>
            /\ Len(Offered) = 1
            /\ Offered[1].Serial = Identifier(TrimSpace(Head(scanner.input)))
            /\ <<Offered[1].Status>> = Status(TrimSpace(Head(scanner.input)))
       /\ ~Recognised(Head(scanner.input)) =>
            /\ eventChan' = eventChan
            /\ scanner'.pc = "scanning"
            /\ scanner'.input = Tail(scanner.input)]_vars

\* a recognised line was read and its event is in the channel, and the loop
\* is still reading
C23_Witness ==
  /\ scanner.pc = "scanning"
  /\ scanner.input = <<>>
  /\ session = "track"
  /\ Len(eventChan.buf) = 1
  /\ eventChan.buf[1] = DeviceChangeEvent(<<"emulator-5554">>, "device")
  /\ process.state = "running"
  /\ scanner.end = "EOF"

\* C24: whichever way the reading loop ends (end of the output or a scan
\* error), the process is killed and the event channel closed exactly once,
\* the end of the loop itself sends no event, and no event is sent once the
\* channel is closed.
C24_LoopExitKillsAndClosesOnce ==
  /\ (scanner.pc = "exiting" ~>
        /\ scanner.pc = "done"
        /\ process.state = "killed"
        /\ eventChan.closed)
  /\ [](scanner.pc = "done" =>
          /\ process.kills = 1
          /\ eventChan.closes = 1)
  /\ [][ScanEnd => eventChan'.buf = eventChan.buf /\ scanner'.pending = <<>>]_vars
  /\ [][eventChan.closed => Len(eventChan'.buf) <= Len(eventChan.buf)]_vars
  /\ [](process.kills <= 1 /\ eventChan.closes <= 1)

\* the loop ended by a scan error after an event was sent; the process was
\* killed and the channel closed with the event still in it
C24_Witness ==
  /\ scanner.pc = "done"
  /\ scanner.end = "error"
  /\ process = [state |-> "killed", kills |-> 1]
  /\ eventChan.closed
  /\ eventChan.closes = 1
  /\ Len(eventChan.buf) = 1

(***************************************************************************)
(* Properties of the controller: refreshes, ignored messages, selection    *)
(* and the pairing flow.                                                   *)
(***************************************************************************)
Refreshes(bag) == CopiesIn(Task("LoadDevicesCmd", ""), bag)

EnqueuesOneRefresh == Refreshes(tasks') = Refreshes(tasks) + 1

WiFiOutcome(success) ==
  \/ wifiConnectDoneMsg(success)
  \/ wifiDisconnectDoneMsg(success)
  \/ wifiPairDoneMsg(success)

\* this step is Enter in the emulator list running launchEmulator
EmulatorLaunch ==
  /\ mode = ModeEmulatorSelect
  /\ KeyEmulatorSelectEnter
  /\ launchEmulator

\* the launch succeeded: no error is left in m.err
EmulatorLaunched == err' = ""

\* C25: the outcome of a WiFi connect, disconnect or pair, and the launch
\* of an emulator, enqueue one device enumeration exactly when they
\* succeeded; a failure enqueues nothing.
C25_RefreshExactlyOnSuccess ==
  [][/\ \A success \in BOOLEAN :
          WiFiOutcome(success) =>
            /\ success => EnqueuesOneRefresh
            /\ ~success => ~Dispatches
     /\ EmulatorLaunch =>
          /\ EmulatorLaunched =>
               /\ EnqueuesOneRefresh
               /\ AppendsOneEntry(LogTypeSuccess)
          /\ ~EmulatorLaunched =>
               /\ ~Dispatches
               /\ logHistory' = logHistory]_vars

\* a pairing succeeded: the refresh is scheduled and the mode is the menu
C25_Witness ==
  /\ Refreshes(tasks) = 1
  /\ BagCardinality(tasks) = 1
  /\ mode = ModeMenu
  /\ ~pairingWiFi
  /\ Len(logHistory) > 0
  /\ LastEntry(logHistory) = [Message |-> <<"WiFi device paired and connected">>,
                              Type |-> LogTypeSuccess]

\* an emulator was launched from the emulator list: the refresh is scheduled
C25_WitnessLaunch ==
  /\ Refreshes(tasks) >= 1
  /\ mode = ModeMenu
  /\ Len(logHistory) > 0
  /\ LastEntry(logHistory) = [Message |-> <<"Launched emulator">>,
                              Type |-> LogTypeSuccess]

\* the fields of the Model
modelState ==
  <<mode, err, logHistory, searchVars, textVars, deviceVars, mediaVars,
    wifiVars, loading, selectedDeviceForAction>>

SchedulesCommand ==
  \E t \in BagToSet(tasks') :
    t.pc = "scheduled" /\ CopiesIn(t, tasks') > CopiesIn(t, tasks)

\* this step delivers a message for which Update has no case
UnrecognisedMsg == GenericStreamingStart \/ StreamingCommandStart

\* C26: a message of a type Update has no case for (GenericStreamingStart,
\* StreamingCommandStart) leaves the state unchanged and dispatches nothing.
C26_UnrecognisedMessageIsIgnored ==
  [][UnrecognisedMsg =>
       /\ UNCHANGED modelState
       /\ ~SchedulesCommand
       /\ BagCardinality(tasks') = BagCardinality(tasks)]_vars

\* the streaming goroutine of a WiFi connect was started and its start
\* message ignored: the flag is still set and the log is empty
C26_Witness ==
  /\ TasksAt("StreamCommand", "spawned") # {}
  /\ connectingWiFi
  /\ logHistory = <<>>
  /\ mode = ModeMenu

SettingCommands == {"dpi", "font-size", "screen-size"}

\* this step is Enter on a highlighted device with a command pending
EnterOnDevice ==
  /\ KeyDeviceSelectEnter
  /\ selectedDevice < Len(devices)
  /\ HasSelection

\* this step is Enter on a highlighted emulator with a command pending
EnterOnEmulator ==
  /\ KeyEmulatorSelectEnter
  /\ ~NoEmulatorSelected
  /\ HasSelection

\* the pending command ran: a command was scheduled, or the emulator launch,
\* which runs inside the handler, was made and failed
RunsPending == SchedulesCommand \/ err' = "failed to launch emulator"

\* C27 (as stated): Enter in the device or emulator list runs the pending
\* command and sets the mode to the menu in the same step, for every
\* command, the DPI, font-size and screen-size commands included.
C27_EnterRunsPendingAndReturnsToMenu ==
  [][EnterOnDevice \/ EnterOnEmulator =>
       /\ RunsPending
       /\ mode' = ModeMenu]_vars

\* C27 (amended): Enter in the device or emulator list runs the pending
\* command in the same step; the mode becomes the menu in that step except
\* for the DPI, font-size and screen-size commands, which schedule the load
\* of the current setting, record the device and the setting type, and leave
\* the mode at the device list until the setting is loaded.
C27_EnterRunsPendingSettingsStayInDeviceSelect ==
  [][/\ EnterOnEmulator => RunsPending /\ mode' = ModeMenu
     /\ EnterOnDevice /\ SelectedCmd \notin SettingCommands =>
          RunsPending /\ mode' = ModeMenu
     /\ EnterOnDevice /\ SelectedCmd \in SettingCommands =>
          /\ RunsPending
          /\ mode' = ModeDeviceSelect
          /\ textInputAction' \in SettingTypes
          /\ selectedDeviceForAction' = devices[selectedDevice + 1]]_vars

\* Enter was pressed on a device with the DPI command pending: the load of
\* the setting is scheduled and the device list is still shown
C27_Witness ==
  /\ mode = ModeDeviceSelect
  /\ textInputAction = "dpi"
  /\ HasSelection
  /\ SelectedCmd = "dpi"
  /\ Task("LoadSettingCmd", "dpi") \in BagToSet(tasks)

\* the catalog commands that act on a device (the default branch of
\* executeSelectedCommand)
DeviceCommands ==
  {"screenshot", "screenshot-day-night", "screen-record"} \cup SettingCommands

\* this step is Enter in the menu on a command that acts on a device
SelectsDeviceCommand ==
  /\ KeyMenuEnter
  /\ HasSelection
  /\ SelectedCmd \in DeviceCommands

\* C28: selecting, in the menu, a command that needs a device shows the
\* device list unless exactly one device is known; with one device the
\* command runs at once and the device list is not entered; with none or
\* with two or more the mode becomes DeviceSelect and nothing is dispatched.
C28_DeviceSelectSkippedForSingleDevice ==
  [][SelectsDeviceCommand =>
       IF Len(devices) = 1
         THEN /\ mode' = ModeMenu
              /\ SchedulesCommand
         ELSE /\ mode' = ModeDeviceSelect
              /\ tasks' = tasks]_vars

\* two devices are known and the screenshot command was selected: the device
\* list is shown and nothing runs
C28_Witness ==
  /\ mode = ModeDeviceSelect
  /\ Len(devices) = 2
  /\ HasSelection
  /\ SelectedCmd = "screenshot"
  /\ tasks = EmptyBag
  /\ ~takingScreenshot

\* the query: the search filter without the slash that starts a search
SearchQuery(filter) == TrimPrefixSlash(filter)

MenuChars == TypedChars \cup {"/"}

AllButLast(str) == SubSeq(str, 1, Len(str) - 1)

Recomputed ==
  filteredCommands' = filterCommands(searchMode', searchFilter')

PairingActions == {"wifi_pair_address", "wifi_pair_code"}

\* the step schedules exactly one command, a pair operation
DispatchesOnePair ==
  \E t \in PairWiFiCmd : tasks' = Dispatch(tasks, t)

\* C30: in the pairing flow, submitting the address stores it, stays in the
\* text input with a new prompt and dispatches nothing; submitting the code
\* dispatches exactly one pair operation, sets the pairing flag, clears the
\* stored address and the text and returns to the menu; cancelling at either
\* step discards the pending text and the stored address.
C30_PairingFlow ==
  [][/\ KeyTextInputSubmit /\ textInputAction = "wifi_pair_address" =>
          /\ pairingAddress' = textInput
          /\ mode' = ModeTextInput
          /\ textInputPrompt' # textInputPrompt
          /\ textInput' = <<>>
          /\ tasks' = tasks
     /\ KeyTextInputSubmit /\ textInputAction = "wifi_pair_code" =>
          /\ DispatchesOnePair
          /\ pairingWiFi'
          /\ pairingAddress' = <<>>
          /\ textInput' = <<>>
          /\ mode' = ModeMenu
     /\ KeyTextInputCancel /\ textInputAction \in PairingActions =>
          /\ textInput' = <<>>
          /\ pairingAddress' = <<>>
          /\ mode' = ModeMenu
          /\ tasks' = tasks]_vars

(***************************************************************************)
(* The consecutive-run bonus.                                              *)
(***************************************************************************)
\* the bonus of the k-th match when a run is a run of adjacent match
\* positions: 5 more than that of the match before when that match sits at
\* the index just before, 0 after a gap
RECURSIVE AdjacentRunBonus(_, _)
AdjacentRunBonus(pos, k) ==
  IF k > 1 /\ pos[k] = pos[k - 1] + 1
  THEN AdjacentRunBonus(pos, k - 1) + 5
  ELSE 0

adjacentRunTotal(pos) ==
  SumSeq([k \in 1..Len(pos) |-> AdjacentRunBonus(pos, k)])

\* what fuzzyMatchStringScore added for runs: the score less its other terms
RunPart(str, q, pos) ==
  fuzzyMatchStringScore(str, q)
  - (10 * Len(pos) + wordStartBonus(str, pos) + earlyPositionBonus(str, pos)
     + SpanBonus(str, pos))

\* C31: a matched character gets the consecutive-run bonus only when the
\* character matched before it sits at the index just before; the bonus
\* grows by 5 per such character and is 0 again after any gap between match
\* positions.
C31_RunBonusOnlyForAdjacentMatches ==
  (searchMode /\ Query # <<>>) =>
    \A str \in Fields :
      IsSubsequence(Query, str) =>
        RunPart(str, Query, LeftmostPositions(str, Query, 1)) =
          adjacentRunTotal(LeftmostPositions(str, Query, 1))

(***************************************************************************)
(* The order of the steps of OutputCapture.Stop.                           *)
(***************************************************************************)
\* this step is Stop, on a capture that is capturing, up to oc.wg.Wait()
StopBegins == (CaptureFunctionStop \/ ApiStop) /\ oc.capturing

Originals == [stdout |-> oc.originalStdout, stderr |-> oc.originalStderr]

\* Stop restores the streams and closes the write ends, then waits for both
\* readers, and only then closes the read ends
StopStepsInOrder ==
  /\ [][StopBegins =>
          /\ os' = Originals
          /\ os' = Terminal
          /\ \A s \in Streams : ~pipes'[s].writerOpen /\ pipes'[s].readerOpen
          /\ oc'.capturing]_vars
  /\ [][(\E s \in Streams : pipes[s].readerOpen /\ ~pipes'[s].readerOpen) =>
          /\ StopReturn
          /\ \A s \in Streams : readers[s] = "done" /\ ~pipes[s].writerOpen
          /\ os = Terminal /\ os' = Terminal
          /\ ~oc'.capturing]_vars

\* the streams are the original ones whenever no capture is going on
StreamsRestored ==
  (~oc.capturing /\ caller.pc # "wait") => os = Terminal

\* Stop has returned in CaptureFunction: every non-empty line fn wrote is in
\* the channel of its stream, unless that channel was filled
NoLineLost ==
  [][(StopReturn /\ caller.mode = "function" /\ FewLines) =>
       /\ oc'.outputCh = NonEmpty(caller.script.stdout)
       /\ oc'.errorCh = NonEmpty(caller.script.stderr)]_vars

\* C32: after Start and then Stop on one OutputCapture the process streams
\* are the ones from before Start; Stop restores the streams, closes both
\* write ends, waits until both reading goroutines have ended and only then
\* closes the read ends, so that no line written before Stop is lost unless
\* its channel was full.
C32_StopInOrderLosesNoLine ==
  /\ StopStepsInOrder
  /\ []StreamsRestored
  /\ NoLineLost

(***************************************************************************)
(* Stopping a recording.                                                   *)
(***************************************************************************)
StopTask(recording) == Task("StopAndSaveRecordingCmd", recording)

\* the stop-and-save steps scheduled or running
StopsInFlight == {t \in BagToSet(tasks) : t.cmd = "StopAndSaveRecordingCmd"}

\* the step schedules the stop-and-save step of the stored recording
DispatchesStopAndSave ==
  tasks' = Dispatch(tasks, StopTask(activeRecording))

\* C33: an active recording is the only operation that can be cancelled:
\* while the recording flag is set the Esc key, in any mode, dispatches the
\* stop-and-save step for the active recording; the flag and the stored
\* recording are cleared when the screen-record-done message arrives, on
\* success and on failure alike; without the flag Esc dispatches nothing.
C33_EscStopsActiveRecording ==
  [][/\ KeyStopRecording =>
          /\ activeRecording # NoRecording
          /\ DispatchesStopAndSave
          /\ recordingScreen'
     /\ \A success \in BOOLEAN :
          screenRecordDoneMsg(success) =>
            /\ ~recordingScreen'
            /\ activeRecording' = NoRecording
     /\ (KeyEsc /\ ~recordingScreen) => ~SchedulesCommand]_vars

\* C35: whenever a recording is stored in the session (its subprocess runs)
\* the recording flag is set, so that the stop key reaches it, whatever the
\* order of the stop key and the recording-started message.
C35_StoredRecordingHasFlag ==
  activeRecording # NoRecording => recordingScreen

\* C36: at most one stop-and-save step is in flight for a recording: a second
\* Esc before the screen-record-done message dispatches no second one.
C36_AtMostOneStopInFlight ==
  \A t \in StopsInFlight :
    /\ CopiesIn(t, tasks) <= 1
    /\ \A u \in StopsInFlight : u.arg = t.arg => u = t

(***************************************************************************)
(* The non-interactive setting commands (internal/cli executeSettingCommand *)
(* with the handlers of internal/commands): one run of "gadget dpi",        *)
(* "gadget font-size" or "gadget screen-size" against the attached devices. *)
(* cli.setting is the state of the selected device: its physical value and  *)
(* its override (a sequence of one value, NoOverride when none is set); DPI values are integers,     *)
(* font scales are tenths, screen sizes are texts.                          *)
(***************************************************************************)
CliSerials == <<"emulator-5554", "192.168.1.100:5555">>
CliSettingTypes == {"dpi", "fontsize", "screensize"}
\* the value argument: none, a number, a size, and a text no handler accepts
CliValues == {<<>>, <<"2">>, <<"2", "x", "3">>, <<"q">>}

DigitValue(c) == CHOOSE n \in 0..9 : <<"0", "1", "2", "3", "4", "5", "6", "7", "8", "9">>[n + 1] = c

\* strconv.Atoi on a text IsNumber accepts
RECURSIVE Atoi(_)
Atoi(s) == IF s = <<>> THEN 0 ELSE 10 * Atoi(SubSeq(s, 1, Len(s) - 1)) + DigitValue(s[Len(s)])

\* fmt.Sprintf("%d", n) and strconv.Itoa(n), n >= 0
RECURSIVE Itoa(_)
Itoa(n) ==
  IF n < 10 THEN <<<<"0", "1", "2", "3", "4", "5", "6", "7", "8", "9">>[n + 1]>>
  ELSE Itoa(n \div 10) \o Itoa(n % 10)

\* strconv.ParseFloat on "d" and "d.d" texts, in tenths; -1 when it fails
ParseFloat(s) ==
  IF IsNumber(s) THEN 10 * Atoi(s)
  ELSE IF Len(s) >= 3 /\ s[Len(s) - 1] = "." /\ IsNumber(SubSeq(s, 1, Len(s) - 2))
          /\ s[Len(s)] \in Digits
       THEN 10 * Atoi(SubSeq(s, 1, Len(s) - 2)) + DigitValue(s[Len(s)])
       ELSE -1

\* strconv.FormatFloat(scale, 'f', 1, 64) and fmt.Sprintf("%.1f", scale)
FormatFloat(tenths) == Itoa(tenths \div 10) \o <<".">> \o Itoa(tenths % 10)

\* what the device prints for "wm density" and "wm size", each line as its
\* strings.Fields; "settings get system font_scale" prints one word
WmOutput(what, physical, override) ==
  <<<<"Physical", what, physical>>>>
    \o (IF override = NoOverride THEN <<>> ELSE <<<<"Override", what, override[1]>>>>)

\* the parse loop of GetCurrentDPI and GetCurrentScreenSize: the last line
\* with the label decides, a line with fewer than three fields is skipped
RECURSIVE LabelledField(_, _, _, _)
LabelledField(lines, label, what, none) ==
  IF lines = <<>> THEN none
  ELSE LET line == lines[Len(lines)]
       IN IF Len(line) >= 3 /\ line[1] = label /\ line[2] = what
          THEN line[3]
          ELSE LabelledField(SubSeq(lines, 1, Len(lines) - 1), label, what, none)

\* GetCurrentDPI on the output of "wm density"
GetCurrentDPI(lines) ==
  LET Number(field) == IF IsNumber(field) THEN Atoi(field) ELSE 0
      Override == Number(LabelledField(lines, "Override", "density:", <<>>))
      Physical == Number(LabelledField(lines, "Physical", "density:", <<>>))
  IN [Physical |-> Physical, Override |-> Override,
      Current |-> IF Override > 0 THEN Override ELSE Physical,
      err |-> IF Physical = 0 THEN "could not parse DPI from output" ELSE ""]

\* GetCurrentScreenSize on the output of "wm size"
GetCurrentScreenSize(lines) ==
  LET Override == LabelledField(lines, "Override", "size:", <<>>)
      Physical == LabelledField(lines, "Physical", "size:", <<>>)
  IN [Physical |-> Physical,
      Current |-> IF Override = <<>> THEN Physical ELSE Override,
      err |-> IF Physical = <<>> THEN "could not parse screen size from output" ELSE ""]

\* GetCurrentFontSize on the output of "settings get system font_scale"
GetCurrentFontSize(word) ==
  IF word = <<"n", "u", "l", "l">> \/ word = <<>>
  THEN [Default |-> 10, Current |-> 10, err |-> ""]
  ELSE [Default |-> 10, Current |-> ParseFloat(word),
        err |-> IF ParseFloat(word) < 0 THEN "could not parse font size from output" ELSE ""]

\* SettingHandler.GetInfo of the three handlers when adb answers
GetInfo(settingType, setting) ==
  IF settingType = "dpi"
  THEN LET info == GetCurrentDPI(WmOutput("density:", Itoa(setting.physical),
                                                [k \in 1..Len(setting.override) |-> Itoa(setting.override[k])]))
       IN [Default |-> Itoa(info.Physical), Current |-> Itoa(info.Current), err |-> info.err]
  ELSE IF settingType = "fontsize"
  THEN LET info == GetCurrentFontSize(IF setting.override = NoOverride
                                      THEN <<"n", "u", "l", "l">>
                                      ELSE FormatFloat(setting.override[1]))
       IN [Default |-> FormatFloat(info.Default), Current |-> FormatFloat(info.Current),
           err |-> info.err]
  ELSE LET info == GetCurrentScreenSize(WmOutput("size:", setting.physical, setting.override))
       IN [Default |-> info.Physical, Current |-> info.Current, err |-> info.err]

\* the value SettingHandler.SetValue hands to adb: SetDPI(Atoi(value)),
\* SetFontSize(ParseFloat(value)), SetScreenSize(value)
SetValue(settingType, value) ==
  IF settingType = "dpi" THEN Atoi(value)
  ELSE IF settingType = "fontsize" THEN ParseFloat(value)
  ELSE value

\* the devices as the factory left them, and with an override in place
DeviceSettings ==
  [dpi        |-> {[physical |-> 420, override |-> o] : o \in {NoOverride, <<480>>}},
   fontsize   |-> {[physical |-> 10, override |-> o] : o \in {NoOverride, <<13>>}},
   screensize |-> {[physical |-> <<"1", "x", "2">>, override |-> o] :
                     o \in {NoOverride, <<<<"1", "x", "1">>>>}}]

outsideCli ==
  <<mode, err, logHistory, searchVars, textVars, deviceVars, mediaVars,
    wifiVars, loading, selectedDeviceForAction, session, inserted, tasks,
    captureVars, trackVars, captures, waiter, dayNight>>

InitCli ==
  /\ NewModel
  /\ session = "cli"
  /\ inserted = <<>>
  /\ NoCapture
  /\ NoTracking
  /\ NoOverlap
  /\ waiter = NoWaiter
  /\ dayNight = NoDayNight
  /\ \E settingType \in CliSettingTypes, value \in CliValues,
        deviceSerial \in {"", CliSerials[2], "unknown"}, n \in 0..Len(CliSerials) :
       \E setting \in DeviceSettings[settingType] :
         cli = Cli("start", settingType, deviceSerial, value, SubSeq(CliSerials, 1, n), setting)

CliReturns(error) == [cli EXCEPT !.pc = "returned", !.err = error]
CliCalled(c, call) == [c EXCEPT !.calls = Append(c.calls, call)]

\* selectDevice: "adb devices -l", then the choice among the devices
selectDevice(outcome) ==
  /\ cli.pc = "start"
  /\ LET called == CliCalled(cli, <<"devices">>)
         found == {i \in 1..Len(cli.attached) : cli.attached[i] = cli.deviceSerial}
     IN cli' =
          IF outcome # "ok" THEN [called EXCEPT !.pc = "returned", !.err = ErrorText]
          ELSE IF Len(cli.attached) = 0
               THEN [called EXCEPT !.pc = "returned", !.err = "no devices connected"]
          ELSE IF cli.deviceSerial # ""
               THEN IF found # {}
                    THEN [called EXCEPT !.pc = "selected", !.device = cli.deviceSerial]
                    ELSE [called EXCEPT !.pc = "returned", !.err = "device not found"]
          ELSE IF Len(cli.attached) = 1
               THEN [called EXCEPT !.pc = "selected", !.device = cli.attached[1]]
               ELSE [called EXCEPT !.pc = "returned",
                                   !.err = "multiple devices connected, please specify -device"]
  /\ UNCHANGED outsideCli

\* handler.GetInfo and the two Printf: the read of the setting may fail in
\* adb or in the parse
ShowInfo(outcome) ==
  LET called == CliCalled(cli, <<"get", cli.device>>)
      info == GetInfo(cli.settingType, cli.setting)
  IN cli' =
       IF outcome # "ok" THEN [called EXCEPT !.pc = "returned", !.err = ErrorText]
       ELSE IF info.err # "" THEN [called EXCEPT !.pc = "returned", !.err = info.err]
       ELSE [called EXCEPT !.pc = "returned",
                           !.printed = cli.printed \o <<[label |-> "default", text |-> info.Default],
                                                        [label |-> "current", text |-> info.Current]>>]

\* executeSettingCommand, "if value == """: show the current setting info
GetInfoOnly(outcome) ==
  /\ cli.pc = "selected"
  /\ cli.value = <<>>
  /\ ShowInfo(outcome)
  /\ UNCHANGED outsideCli

\* executeSettingCommand, "handler.ValidateInput(value)"
Validate ==
  /\ cli.pc = "selected"
  /\ cli.value # <<>>
  /\ cli' = IF ValidateInput(cli.settingType, cli.value)
            THEN [cli EXCEPT !.pc = "validated"]
            ELSE CliReturns("invalid value")
  /\ UNCHANGED outsideCli

\* a faulty set step that goes on to the read-back when adb fails
SetValueStepIgnoringFailure(outcome) ==
  /\ cli.pc = "validated"
  /\ cli' = [CliCalled(cli, <<"set", cli.device, SetValue(cli.settingType, cli.value)>>)
               EXCEPT !.pc = "set"]
  /\ UNCHANGED outsideCli

\* executeSettingCommand, "handler.SetValue(cfg, device, value)": the adb
\* command changes the override of the device or fails
SetValueStep(outcome) ==
  /\ cli.pc = "validated"
  /\ LET new == SetValue(cli.settingType, cli.value)
         called == CliCalled(cli, <<"set", cli.device, new>>)
     IN cli' =
          IF outcome # "ok" THEN [called EXCEPT !.pc = "returned", !.err = ErrorText]
          ELSE [called EXCEPT !.pc = "set", !.setting.override = <<new>>,
                              !.printed = Append(cli.printed, [label |-> "changed", text |-> new])]
  /\ UNCHANGED outsideCli

\* executeSettingCommand, "Show setting info after setting"
ReadBack(outcome) ==
  /\ cli.pc = "set"
  /\ ShowInfo(outcome)
  /\ UNCHANGED outsideCli

AdbOutcomes == {"ok", "fail"}

NextCli ==
  \/ \E outcome \in AdbOutcomes : selectDevice(outcome)
  \/ \E outcome \in AdbOutcomes : GetInfoOnly(outcome)
  \/ Validate
  \/ \E outcome \in AdbOutcomes : SetValueStep(outcome)
  \/ \E outcome \in AdbOutcomes : ReadBack(outcome)

SpecCli == InitCli /\ [][NextCli]_vars

\* the adb commands of the run so far, by kind
CallKinds == [k \in 1..Len(cli.calls) |-> cli.calls[k][1]]
IsPrefix(s, t) == Len(s) <= Len(t) /\ s = SubSeq(t, 1, Len(s))

\* a setting value as GetInfo prints it
Shown(settingType, v) ==
  IF settingType = "dpi" THEN Itoa(v)
  ELSE IF settingType = "fontsize" THEN FormatFloat(v)
  ELSE v

\* the value in effect on the device of the run
Effective ==
  IF cli.setting.override # NoOverride THEN cli.setting.override[1] ELSE cli.setting.physical

CliSucceeded == cli.pc = "returned" /\ cli.err = ""
PrintedCurrent == cli.printed[Len(cli.printed)]

\* the steps come in the order select, set, read back, on the selected device
CliStepsInOrder ==
  /\ IsPrefix(CallKinds, IF cli.value = <<>> THEN <<"devices", "get">>
                         ELSE <<"devices", "set", "get">>)
  /\ \A k \in 2..Len(cli.calls) : cli.calls[k][2] = cli.device /\ cli.device # ""

\* a run with a value that succeeds has set the value and printed it as read back
CliSetThenReadBack ==
  (CliSucceeded /\ cli.value # <<>>) =>
    /\ CallKinds = <<"devices", "set", "get">>
    /\ cli.calls[2][3] = SetValue(cli.settingType, cli.value)
    /\ PrintedCurrent = [label |-> "current",
                         text |-> Shown(cli.settingType, SetValue(cli.settingType, cli.value))]

\* a run without a value only reads, and prints the effective value as current
CliReadOnly ==
  (CliSucceeded /\ cli.value = <<>>) =>
    /\ CallKinds = <<"devices", "get">>
    /\ cli.printed = <<[label |-> "default", text |-> Shown(cli.settingType, cli.setting.physical)],
                       [label |-> "current", text |-> Shown(cli.settingType, Effective)]>>

\* a failed set step ends the run with its error, nothing read back
CliFailedSetReturns ==
  [][SetValueStep("fail") =>
       /\ cli'.pc = "returned"
       /\ cli'.err = ErrorText
       /\ cli'.calls = Append(cli.calls, <<"set", cli.device, SetValue(cli.settingType, cli.value)>>)
       /\ cli'.setting = cli.setting
       /\ cli'.printed = cli.printed]_vars

\* a run that returned takes no further step
CliReturnedIsFinal == cli.pc = "returned" => ~ENABLED NextCli

\* C34: a non-interactive setting command with a value selects the device,
\* sets the value, then reads the setting back and prints it; a failed set
\* step returns its error without a read-back; with no value the command only
\* reads and prints, the current value being the override when there is one
\* and the physical value otherwise.
C34_SetThenReadBackOrReadOnly ==
  /\ [](CliStepsInOrder /\ CliSetThenReadBack /\ CliReadOnly /\ CliReturnedIsFinal)
  /\ CliFailedSetReturns

\* a run that set a value and printed it, and one that only read an override
C34_Witness ==
  /\ CliSucceeded
  /\ cli.value # <<>>
  /\ CallKinds = <<"devices", "set", "get">>
  /\ PrintedCurrent.text = Shown(cli.settingType, cli.setting.override[1])

C34_WitnessFailedSet ==
  cli.pc = "returned" /\ cli.err = ErrorText /\ CallKinds = <<"devices", "set">>

C34_WitnessOverrideRead ==
  /\ CliSucceeded
  /\ cli.value = <<>>
  /\ cli.setting.override # NoOverride
  /\ PrintedCurrent.text = Shown(cli.settingType, cli.setting.override[1])

(***************************************************************************)
(* CaptureFunction calls that overlap (capture.CaptureFunction, called by   *)
(* the goroutines of executeWiFiOperation and of the other capturing        *)
(* commands).  Every call has its own OutputCapture and so its own mutex;   *)
(* os.Stdout and os.Stderr are shared, and each read or write of them is a  *)
(* step of its own.  What fn writes and what the readers collect is the     *)
(* subject of SpecCapture and is left out here.                             *)
(***************************************************************************)
WriterOf(c) ==
  [stdout |-> "stdoutWriter of capture " \o ToString(c),
   stderr |-> "stderrWriter of capture " \o ToString(c)]

outsideCaptures ==
  <<mode, err, logHistory, searchVars, textVars, deviceVars, mediaVars,
    wifiVars, loading, selectedDeviceForAction, session, inserted, tasks,
    oc, pipes, readers, caller, trackVars, cli, waiter, dayNight>>

InitOverlap ==
  /\ NewModel
  /\ session = "overlap"
  /\ inserted = <<>>
  /\ NoCapture
  /\ NoTracking
  /\ cli = NoCli
  /\ waiter = NoWaiter
  /\ dayNight = NoDayNight
  /\ captures = [c \in CaptureIds |-> [NotCalled EXCEPT !.pc = "start"]]

CaptureAt(c, pc) == captures[c].pc = pc
CaptureStep(c, pc) == captures' = [captures EXCEPT ![c].pc = pc]

\* Start: "oc.originalStdout = os.Stdout"
SaveStdout(c) ==
  /\ CaptureAt(c, "start")
  /\ captures' = [captures EXCEPT ![c].pc = "saved stdout", ![c].originalStdout = os.stdout]
  /\ UNCHANGED <<os, outsideCaptures>>

\* Start: "oc.originalStderr = os.Stderr", then the two os.Pipe() calls
SaveStderr(c, outcome) ==
  /\ CaptureAt(c, "saved stdout")
  /\ captures' = [captures EXCEPT ![c].pc = IF outcome = "ok" THEN "piped" ELSE "returned",
                                  ![c].originalStderr = os.stderr]
  /\ UNCHANGED <<os, outsideCaptures>>

\* Start: "os.Stdout = stdoutWriter"
ReplaceStdout(c) ==
  /\ CaptureAt(c, "piped")
  /\ os' = [os EXCEPT !.stdout = WriterOf(c).stdout]
  /\ CaptureStep(c, "replaced stdout")
  /\ UNCHANGED outsideCaptures

\* Start: "os.Stderr = stderrWriter" up to "oc.capturing = true"; fn runs next
ReplaceStderr(c) ==
  /\ CaptureAt(c, "replaced stdout")
  /\ os' = [os EXCEPT !.stderr = WriterOf(c).stderr]
  /\ captures' = [captures EXCEPT ![c].pc = "fn", ![c].capturing = TRUE]
  /\ UNCHANGED outsideCaptures

\* fn returns and Stop begins: "os.Stdout = oc.originalStdout"
RestoreStdout(c) ==
  /\ CaptureAt(c, "fn")
  /\ os' = [os EXCEPT !.stdout = captures[c].originalStdout]
  /\ CaptureStep(c, "restored stdout")
  /\ UNCHANGED outsideCaptures

\* Stop: "os.Stderr = oc.originalStderr"
RestoreStderr(c) ==
  /\ CaptureAt(c, "restored stdout")
  /\ os' = [os EXCEPT !.stderr = captures[c].originalStderr]
  /\ CaptureStep(c, "restored stderr")
  /\ UNCHANGED outsideCaptures

\* Stop: the write ends are closed, the readers waited for, the read ends
\* closed, "oc.capturing = false"; CaptureFunction returns
ClosePipes(c) ==
  /\ CaptureAt(c, "restored stderr")
  /\ captures' = [captures EXCEPT ![c].pc = "returned", ![c].capturing = FALSE,
                                  ![c].closed = TRUE]
  /\ UNCHANGED <<os, outsideCaptures>>

NextOverlap ==
  \/ \E c \in CaptureIds : SaveStdout(c)
  \/ \E c \in CaptureIds, outcome \in {"ok", PipeError} : SaveStderr(c, outcome)
  \/ \E c \in CaptureIds : ReplaceStdout(c)
  \/ \E c \in CaptureIds : ReplaceStderr(c)
  \/ \E c \in CaptureIds : RestoreStdout(c)
  \/ \E c \in CaptureIds : RestoreStderr(c)
  \/ \E c \in CaptureIds : ClosePipes(c)

SpecOverlap == InitOverlap /\ [][NextOverlap]_vars

AllCapturesReturned == \A c \in CaptureIds : CaptureAt(c, "returned")
ClosedWriters == {WriterOf(c)[s] : c \in {d \in CaptureIds : captures[d].closed}, s \in {"stdout", "stderr"}}

\* C37: once every CaptureFunction call has returned, overlapping ones
\* included, os.Stdout and os.Stderr are the streams from before the first
\* Start, and never a pipe end that a capture created and closed.
C37_StreamsOriginalAfterAllCaptures ==
  AllCapturesReturned =>
    /\ os = Terminal
    /\ os.stdout \notin ClosedWriters
    /\ os.stderr \notin ClosedWriters

\* a capture whose Start saved a stream that another capture had replaced
SavedAnothersPipe ==
  \E c, d \in CaptureIds :
    c # d /\ (captures[c].originalStdout = WriterOf(d).stdout
              \/ captures[c].originalStderr = WriterOf(d).stderr)

(***************************************************************************)
(* Leaving the menu.                                                       *)
(***************************************************************************)
LeavesMenu == mode = ModeMenu /\ mode' # ModeMenu

\* a setting command is selected and its prompt has not been cancelled:
\* startSettingChange stored its type, resetTextInput has not cleared it
SettingSelected == textInputAction \in SettingTypes

\* the setting-loaded reply to a selected setting command
LoadedForSelected == settingLoadedMsg(TRUE) /\ SettingSelected

\* C38: after the user cancelled out of TextInput to Menu, no outcome message
\* of an operation dispatched before the cancel moves the mode out of Menu;
\* the mode leaves Menu only in the step of a select keystroke or of the
\* setting-loaded reply to a setting command selected and not cancelled.
C38_MenuLeftOnlyBySelectOrLoadedSetting ==
  [][LeavesMenu => (KeyEnter \/ LoadedForSelected)]_vars

(***************************************************************************)
(* WaitForDeviceChangeCmd on the channel that StartDeviceTracking returned. *)
(* waiter.signals are the DeviceRefreshMsg the command has returned, each   *)
(* with the event its receive yielded.                                      *)
(***************************************************************************)
\* calls of WaitForDeviceChangeCmd in a run
MaxWaits == 2

outsideWaiter ==
  <<mode, err, logHistory, searchVars, textVars, deviceVars, mediaVars,
    wifiVars, loading, selectedDeviceForAction, session, inserted, tasks,
    captureVars, cli, captures, dayNight>>

\* the zero value of DeviceChangeEvent, what a receive on a closed and
\* drained channel yields
ZeroEvent == DeviceChangeEvent(<<>>, <<>>)

\* StartDeviceTracking returned the channel (and no error)
ChannelReturned == scanner.pc \notin {"not started", "failed"}

\* the command is run on the channel
WaitForDeviceChangeCmd ==
  /\ ChannelReturned
  /\ waiter.pc = "idle"
  /\ Len(waiter.signals) < MaxWaits
  /\ waiter' = [waiter EXCEPT !.pc = "receiving"]
  /\ UNCHANGED <<trackVars, outsideWaiter>>

\* "event := <-eventChan": the oldest buffered event; the zero value at once
\* when the channel is closed and empty; blocked otherwise
Receive ==
  /\ waiter.pc = "receiving"
  /\ IF eventChan.buf # <<>>
       THEN /\ waiter' = [waiter EXCEPT !.pc = "sleeping", !.event = Head(eventChan.buf)]
            /\ eventChan' = [eventChan EXCEPT !.buf = Tail(eventChan.buf)]
       ELSE /\ eventChan.closed
            /\ waiter' = [waiter EXCEPT !.pc = "sleeping", !.event = ZeroEvent]
            /\ UNCHANGED eventChan
  /\ UNCHANGED <<process, scanner, outsideWaiter>>

\* "time.Sleep(500 * time.Millisecond)" and
\* "return messaging.DeviceRefreshMsg{Reason: "device-changed"}"
ReturnDeviceRefreshMsg ==
  /\ waiter.pc = "sleeping"
  /\ waiter' = [pc |-> "idle", event |-> <<>>,
                signals |-> Append(waiter.signals, waiter.event)]
  /\ UNCHANGED <<trackVars, outsideWaiter>>

NextWait ==
  \/ \E outcome \in {"ok", "pipe error", "start error"} :
       StartDeviceTracking(outcome)
  \/ TrackingGoroutine
  \/ WaitForDeviceChangeCmd
  \/ Receive
  \/ ReturnDeviceRefreshMsg

SpecWait == InitTrack /\ [][NextWait]_vars

\* the events the watcher has put on the channel: those of recognised lines
WatcherEvents == {parseLine(line)[1] : line \in {l \in TrackLines \cup {ValidLine} : parseLine(l) # <<>>}}

\* C39: the wait-for-device-change command emits a device-changed refresh signal
\* only after it received an actual event of the watcher; once the event
\* queue is closed, waiting on it produces no further refresh signal.
C39_RefreshOnlyAfterActualEvent ==
  /\ [](\A k \in 1..Len(waiter.signals) : waiter.signals[k] \in WatcherEvents)
  /\ [][(eventChan.closed /\ eventChan.buf = <<>>) => ~Receive]_vars

(***************************************************************************)
(* The day-night screenshot sequence (media executeDayNightWithProgress     *)
(* with takeScreenshotSilent and commands.SetDarkMode).  Every adb command  *)
(* of the sequence is a step that succeeds or fails; a command that fails   *)
(* leaves the device as it was.  dayNight.calls are the adb commands run,   *)
(* each with its outcome.                                                   *)
(***************************************************************************)
outsideDayNight ==
  <<mode, err, logHistory, searchVars, textVars, deviceVars, mediaVars,
    wifiVars, loading, selectedDeviceForAction, session, inserted, tasks,
    captureVars, trackVars, cli, captures, waiter>>

\* time.Now().Format("20060102-150405") of two runs
Timestamps == {"20240101-120000", "20240101-120500"}

\* the device before the run: in light or dark mode, with or without a
\* screenshot file left on it
InitDayNight ==
  /\ NewModel
  /\ session = "day-night"
  /\ inserted = <<>>
  /\ NoCapture
  /\ NoTracking
  /\ cli = NoCli
  /\ NoOverlap
  /\ waiter = NoWaiter
  /\ \E device \in 1..Len(CliSerials), timestamp \in Timestamps,
        night \in {"no", "yes"}, remote \in {"none", "light image", "dark image"} :
       dayNight = DayNight("set light", CliSerials[device], timestamp, night, remote)

\* "android-img-%s-day.png" and "android-img-%s-night.png"
Filename(timestamp, suffix) == "android-img-" \o timestamp \o suffix

\* an adb command on the device of the run
AdbCall(command, outcome) ==
  [serial |-> dayNight.serial, command |-> command, ok |-> outcome = "ok"]

\* the run after one adb command: on to the next step, or the early return
\* with the progress line of the error
AfterCall(command, outcome, next, errorLine) ==
  IF outcome = "ok"
  THEN [dayNight EXCEPT !.pc = next, !.calls = Append(dayNight.calls, AdbCall(command, outcome))]
  ELSE [dayNight EXCEPT !.pc = "returned", !.err = ErrorText,
                        !.calls = Append(dayNight.calls, AdbCall(command, outcome)),
                        !.progress = Append(dayNight.progress, errorLine)]

\* commands.SetDarkMode(cfg, device, enabled): "cmd uimode night yes|no"
SetDarkMode(enabled, outcome, pc, next, errorLine) ==
  /\ dayNight.pc = pc
  /\ dayNight' =
       [AfterCall(IF enabled THEN "uimode night yes" ELSE "uimode night no",
                  outcome, next, errorLine)
          EXCEPT !.night = IF outcome # "ok" THEN dayNight.night
                           ELSE IF enabled THEN "yes" ELSE "no"]
  /\ UNCHANGED outsideDayNight

\* takeScreenshotSilent: "shell screencap remotePath"
Screencap(outcome, pc, next, errorLine) ==
  /\ dayNight.pc = pc
  /\ dayNight' =
       [AfterCall("screencap", outcome, next, errorLine)
          EXCEPT !.remote = IF outcome # "ok" THEN dayNight.remote
                            ELSE IF dayNight.night = "yes" THEN "dark image"
                            ELSE "light image"]
  /\ UNCHANGED outsideDayNight

\* takeScreenshotSilent: "pull remotePath localPath"
Pull(outcome, pc, next, errorLine, localPath) ==
  /\ dayNight.pc = pc
  /\ dayNight' =
       [AfterCall("pull", outcome, next, errorLine)
          EXCEPT !.saved = IF outcome # "ok" THEN dayNight.saved
                           ELSE dayNight.saved \cup {[path |-> localPath, image |-> dayNight.remote]}]
  /\ UNCHANGED outsideDayNight

SetLightMode(outcome) ==
  SetDarkMode(FALSE, outcome, "set light", "day screencap", "Error setting light mode")
DayScreencap(outcome) ==
  Screencap(outcome, "day screencap", "day pull", "Error taking day screenshot")
DayPull(outcome) ==
  Pull(outcome, "day pull", "set dark", "Error taking day screenshot",
       Filename(dayNight.timestamp, "-day.png"))
SetDarkModeStep(outcome) ==
  SetDarkMode(TRUE, outcome, "set dark", "night screencap", "Error setting dark mode")
NightScreencap(outcome) ==
  Screencap(outcome, "night screencap", "night pull", "Error taking night screenshot")
NightPull(outcome) ==
  Pull(outcome, "night pull", "restore light", "Error taking night screenshot",
       Filename(dayNight.timestamp, "-night.png"))

\* "Restoring light mode...": a failure is a warning, the run goes on
RestoreLightMode(outcome) ==
  /\ dayNight.pc = "restore light"
  /\ dayNight' =
       [dayNight EXCEPT
          !.pc = "cleanup",
          !.calls = Append(dayNight.calls, AdbCall("uimode night no", outcome)),
          !.night = IF outcome = "ok" THEN "no" ELSE dayNight.night,
          !.progress = IF outcome = "ok" THEN dayNight.progress
                       ELSE Append(dayNight.progress, "Warning: failed to restore light mode")]
  /\ UNCHANGED outsideDayNight

\* commands.CleanupRemoteFile, its error dropped, and "return nil"
CleanupRemoteFile(outcome) ==
  /\ dayNight.pc = "cleanup"
  /\ dayNight' =
       [dayNight EXCEPT
          !.pc = "returned",
          !.calls = Append(dayNight.calls, AdbCall("rm", outcome)),
          !.remote = IF outcome = "ok" THEN "none" ELSE dayNight.remote]
  /\ UNCHANGED outsideDayNight

NextDayNight ==
  \/ \E outcome \in AdbOutcomes : SetLightMode(outcome)
  \/ \E outcome \in AdbOutcomes : DayScreencap(outcome)
  \/ \E outcome \in AdbOutcomes : DayPull(outcome)
  \/ \E outcome \in AdbOutcomes : SetDarkModeStep(outcome)
  \/ \E outcome \in AdbOutcomes : NightScreencap(outcome)
  \/ \E outcome \in AdbOutcomes : NightPull(outcome)
  \/ \E outcome \in AdbOutcomes : RestoreLightMode(outcome)
  \/ \E outcome \in AdbOutcomes : CleanupRemoteFile(outcome)

SpecDayNight == InitDayNight /\ [][NextDayNight]_vars

DayNightCommands == [k \in 1..Len(dayNight.calls) |-> dayNight.calls[k].command]

\* the steps in their order, each made of its adb commands
DayNightOrder ==
  <<"uimode night no", "screencap", "pull", "uimode night yes", "screencap", "pull",
    "uimode night no">>

\* the position of the successful switch to dark mode among the calls, if any
DarkSwitches == {k \in 1..Len(dayNight.calls) :
                   dayNight.calls[k] = AdbCall("uimode night yes", "ok")}

\* a switch back to light mode was run after call k
SwitchedBackAfter(k) ==
  \E j \in (k + 1)..Len(dayNight.calls) : dayNight.calls[j].command = "uimode night no"

\* C40: the day-night sequence runs set light mode, day screenshot, set dark
\* mode, night screenshot, restore light mode in this order, and on every exit
\* path after a successful switch to dark mode, a failed night screenshot
\* included, the device is switched back to light mode before the return.
C40_OrderAndLightRestoredOnEveryExit ==
  /\ \/ IsPrefix(DayNightCommands, DayNightOrder)
     \/ DayNightCommands = Append(DayNightOrder, "rm")
  /\ dayNight.pc = "returned" => \A k \in DarkSwitches : SwitchedBackAfter(k)

\* the order alone
DayNightStepsInOrder ==
  \/ IsPrefix(DayNightCommands, DayNightOrder)
  \/ DayNightCommands = Append(DayNightOrder, "rm")
====
